---- MODULE Spec2Model ----
(***************************************************************************)
(* Model of the Pacman AI decision engine (ai_agent.py) and the parts of   *)
(* its host (run.py, pellets.py) that the agent's contract depends on.     *)
(*                                                                         *)
(* Positions are pairs <<x, y>> of whole pixels.  A node is represented by *)
(* its position, which is also its key: get_node_key truncates the node's  *)
(* coordinates, and every node of the mazes below sits on whole pixels.    *)
(***************************************************************************)
EXTENDS Integers, Sequences, FiniteSets

VARIABLES
    maze,        \* index of the level's graph (static per level)
    pelletList,  \* PelletGroup.pelletList: sequence of [position, name]
    ghosts,      \* GhostGroup: sequence of [position, mode]
    pacman,      \* [node, target, position]
    agent,       \* [kind, current_path, current_goal, last_node, last_position]
    ret,         \* direction returned by the last get_direction call
    branch,      \* the return statement of get_direction that produced ret
    quietN,      \* get_direction calls since the host last changed the world
    path0,       \* current_path as left by the first call of the quiet period
    cached,      \* current_path as the last get_direction call found it
    planned,     \* whether the last get_direction call searched a new path
    goal,        \* pellet position the last searched path was aimed at
    probe,       \* arguments of the last direct call of a pure routine
    result       \* value returned by that call

worldVars == <<maze, pelletList, ghosts, pacman, agent>>

queryVars == <<ret, branch, quietN, path0, cached, planned, goal>>

vars == <<worldVars, queryVars, probe, result>>

\* Python's None, for an optional node, key or position (a pair otherwise)
None == <<>>

\* No value yet, for a variable that holds a string
Unset == "Unset"

\* No agent, no character, no direct call yet
NoAgent ==
    [kind |-> Unset, current_path |-> <<>>, current_goal |-> None,
     last_node |-> None, last_position |-> None]

NoProbe == [op |-> Unset]

\* No get_direction call yet
NoQuery ==
    /\ ret = Unset
    /\ branch = Unset
    /\ quietN = 0
    /\ path0 = <<>>
    /\ cached = <<>>
    /\ planned = FALSE
    /\ goal = None

NoPacman == [node |-> None, target |-> None, position |-> <<0, 0>>]

----------------------------------------------------------------------------
(* constants.py (not part of the sources at hand)                          *)

TILEWIDTH == 16

STOP == "STOP"
UP == "UP"
DOWN == "DOWN"
LEFT == "LEFT"
RIGHT == "RIGHT"

PACMAN == "PACMAN"
GHOST == "GHOST"
PELLET == "PELLET"
POWERPELLET == "POWERPELLET"

SCATTER == "SCATTER"
CHASE == "CHASE"
FREIGHT == "FREIGHT"
SPAWN == "SPAWN"

Modes == {SCATTER, CHASE, FREIGHT, SPAWN}

----------------------------------------------------------------------------
(* vector.py: the operations of Vector2 that the agent uses                *)

\* (a - b).magnitudeSquared()
magnitudeSquared(a, b) ==
    (a[1] - b[1]) * (a[1] - b[1]) + (a[2] - b[2]) * (a[2] - b[2])

Abs(x) == IF x < 0 THEN -x ELSE x

----------------------------------------------------------------------------
(* The Graph View: nodes with per-direction neighbours and per-direction   *)
(* access lists.  Nodes lie on a grid, two tiles apart; a corridor joins   *)
(* two nodes of a row or of a column.                                      *)

Spacing == 2 * TILEWIDTH

NodeAt(c, r) == <<c * Spacing, r * Spacing>>

TileAt(c, r) == <<c * TILEWIDTH, r * TILEWIDTH>>

Delta(d) ==
    CASE d = UP -> <<0, -1>>
      [] d = DOWN -> <<0, 1>>
      [] d = LEFT -> <<-1, 0>>
      [] d = RIGHT -> <<1, 0>>

Opposite(d) ==
    CASE d = UP -> DOWN
      [] d = DOWN -> UP
      [] d = LEFT -> RIGHT
      [] d = RIGHT -> LEFT

Step(n, d) == <<n[1] + Delta(d)[1] * Spacing, n[2] + Delta(d)[2] * Spacing>>

\* Both directions of every corridor of a set of <<column, row, direction>>.
Corridors(S) ==
    {<<NodeAt(e[1], e[2]), e[3]>> : e \in S}
        \cup {<<Step(NodeAt(e[1], e[2]), e[3]), Opposite(e[3])>> : e \in S}

Grid3 == {NodeAt(c, r) : c \in 0..2, r \in 0..2}

\* Maze 1: the 3x3 grid with every corridor open.
Maze1 ==
    [nodes |-> Grid3,
     links |-> {<<n, d>> \in Grid3 \X {UP, LEFT, DOWN, RIGHT} : Step(n, d) \in Grid3},
     far |-> {},
     denied |-> {},
     unlisted |-> {}]

\* Maze 2: two loops, a home node behind an edge Pacman may not enter, and
\* a node with no neighbours at all.
\*
\*     (0,0)---(1,0)---(2,0)
\*       |       |       :        ':' Pacman denied downwards
\*     (0,1)---(1,1)   (2,1)
\*       |       |
\*     (0,2)---(1,2)   (2,2)
Maze2 ==
    [nodes |-> Grid3,
     links |-> Corridors({<<0, 0, RIGHT>>, <<1, 0, RIGHT>>, <<0, 0, DOWN>>,
                          <<1, 0, DOWN>>, <<0, 1, RIGHT>>, <<0, 1, DOWN>>,
                          <<1, 1, DOWN>>, <<0, 2, RIGHT>>, <<2, 0, DOWN>>}),
     far |-> {},
     denied |-> {<<NodeAt(2, 0), DOWN>>},
     unlisted |-> {}]

Column5 == {NodeAt(0, r) : r \in 0..4}

\* Maze 3: a column of five nodes and, beside it, one corridor four times
\* as long as the others, with no node between its ends.  The access table
\* of the top left node has no entry for RIGHT.
\*
\*     (0,0)---(1,0)
\*       |       |
\*     (0,1)     |
\*       |       |
\*     (0,2)     |
\*       |       |
\*     (0,3)     |
\*       |       |
\*     (0,4)---(1,4)
Maze3 ==
    [nodes |-> Column5 \cup {NodeAt(1, 0), NodeAt(1, 4)},
     links |-> Corridors({<<0, 0, DOWN>>, <<0, 1, DOWN>>, <<0, 2, DOWN>>, <<0, 3, DOWN>>,
                          <<0, 0, RIGHT>>, <<0, 4, RIGHT>>})
                   \cup {<<NodeAt(1, 0), DOWN>>, <<NodeAt(1, 4), UP>>},
     far |-> {<<NodeAt(1, 0), DOWN, NodeAt(1, 4)>>, <<NodeAt(1, 4), UP, NodeAt(1, 0)>>},
     denied |-> {},
     unlisted |-> {<<NodeAt(0, 0), RIGHT>>}]

Mazes == <<Maze1, Maze2, Maze3>>

Nodes(m) == Mazes[m].nodes

\* node.neighbors.get(direction): the node one grid step away, or the far
\* end of a long corridor.
Neighbor(m, n, d) ==
    LET neighbors(level) ==
            IF <<n, d>> \notin level.links THEN None
            ELSE IF \E e \in level.far : e[1] = n /\ e[2] = d
            THEN (CHOOSE e \in level.far : e[1] = n /\ e[2] = d)[3]
            ELSE Step(n, d)
    IN  neighbors(Mazes[m])

\* node.access.get(direction, [])
Access(m, n, d) ==
    LET access(level) ==
            IF <<n, d>> \in level.unlisted THEN {}
            ELSE IF <<n, d>> \in level.denied THEN {GHOST}
            ELSE {PACMAN, GHOST}
    IN  access(Mazes[m])

----------------------------------------------------------------------------
(* AIAgent: shared traversal utilities                                     *)

DIRECTION_ORDER == <<UP, LEFT, DOWN, RIGHT>>

get_node_key(node) == <<node[1], node[2]>>

\* get_neighbors going through the directions as UP, DOWN, LEFT, RIGHT.
get_neighborsMutOrder(m, node) ==
    LET ok(d) == Neighbor(m, node, d) # None /\ PACMAN \in Access(m, node, d)
        ds == SelectSeq(<<UP, DOWN, LEFT, RIGHT>>, ok)
    IN  [i \in 1..Len(ds) |-> <<Neighbor(m, node, ds[i]), ds[i]>>]

\* The sequence of <<neighbor, direction>> pairs, in DIRECTION_ORDER.
get_neighbors(m, node) ==
    LET ok(d) == Neighbor(m, node, d) # None /\ PACMAN \in Access(m, node, d)
        ds == SelectSeq(DIRECTION_ORDER, ok)
    IN  [i \in 1..Len(ds) |-> <<Neighbor(m, node, ds[i]), ds[i]>>]

\* dist_sq < (TILEWIDTH * 1.5) ** 2, with both sides multiplied by four
is_at_goal(node, target_position) ==
    4 * magnitudeSquared(node, target_position) < 9 * TILEWIDTH * TILEWIDTH

\* path.reverse()
Reverse(path) == [i \in 1..Len(path) |-> path[Len(path) + 1 - i]]

\* A dictionary with key k set to v.
Put(dict, k, v) == [x \in DOMAIN dict \cup {k} |-> IF x = k THEN v ELSE dict[x]]

\* The while loop of reconstruct_path: came_from maps a key to
\* <<parent key, direction>>.
RECURSIVE WalkBack(_, _, _, _)
WalkBack(came_from, start_key, current, path) ==
    IF current \notin DOMAIN came_from THEN path
    ELSE LET parent == came_from[current][1]
             direction == came_from[current][2]
         IN  IF parent = start_key THEN Append(path, direction)
             ELSE WalkBack(came_from, start_key, parent, Append(path, direction))

\* reconstruct_path without "if goal_key == start_key: return []".
reconstruct_pathMutNoStartTest(came_from, start_key, goal_key) ==
    Reverse(WalkBack(came_from, start_key, goal_key, <<>>))

reconstruct_pathMutNoReverse(came_from, start_key, goal_key) ==
    IF goal_key = start_key THEN <<>>
    ELSE WalkBack(came_from, start_key, goal_key, <<>>)

reconstruct_path(came_from, start_key, goal_key) ==
    IF goal_key = start_key THEN <<>>
    ELSE Reverse(WalkBack(came_from, start_key, goal_key, <<>>))

\* "for pellet in pelletList: if is_at_goal(node, pellet.position)": some
\* pellet of the list is within the goal threshold of the node.
AnyPelletAtGoal(pl, node) ==
    \E i \in 1..Len(pl) : is_at_goal(node, pl[i].position)

----------------------------------------------------------------------------
(* AStarAgent: the Threat Model                                            *)

\* The danger one ghost adds to a position.
GhostTermMutTier(ghost, position) ==
    LET dist_sq == magnitudeSquared(ghost.position, position)
        within(k) == dist_sq < (k * TILEWIDTH) * (k * TILEWIDTH)
    IN  IF ghost.mode = SPAWN THEN 0
        ELSE IF within(2) THEN 100000
        ELSE IF within(4) THEN 5000
        ELSE IF within(6) THEN 10000
        ELSE IF within(8) THEN 1000
        ELSE IF within(10) THEN 100
        ELSE 0

GhostTermMutSpawn(ghost, position) ==
    LET dist_sq == magnitudeSquared(ghost.position, position)
        within(k) == dist_sq < (k * TILEWIDTH) * (k * TILEWIDTH)
    IN  IF ghost.mode = FREIGHT THEN 0
        ELSE IF within(2) THEN 100000
        ELSE IF within(4) THEN 50000
        ELSE IF within(6) THEN 10000
        ELSE IF within(8) THEN 1000
        ELSE IF within(10) THEN 100
        ELSE 0

GhostTermMutThreshold(ghost, position) ==
    LET dist_sq == magnitudeSquared(ghost.position, position)
        within(k) == dist_sq < (k * TILEWIDTH) * (k * TILEWIDTH)
    IN  IF ghost.mode = SPAWN THEN 0
        ELSE IF within(2) THEN 100000
        ELSE IF within(3) THEN 50000
        ELSE IF within(6) THEN 10000
        ELSE IF within(8) THEN 1000
        ELSE IF within(10) THEN 100
        ELSE 0

GhostTerm(ghost, position) ==
    LET dist_sq == magnitudeSquared(ghost.position, position)
        within(k) == dist_sq < (k * TILEWIDTH) * (k * TILEWIDTH)
    IN  IF ghost.mode = SPAWN THEN 0
        ELSE IF within(2) THEN 100000
        ELSE IF within(4) THEN 50000
        ELSE IF within(6) THEN 10000
        ELSE IF within(8) THEN 1000
        ELSE IF within(10) THEN 100
        ELSE 0

RECURSIVE DangerFrom(_, _, _)
DangerFrom(gs, i, position) ==
    IF i > Len(gs) THEN 0
    ELSE GhostTerm(gs[i], position) + DangerFrom(gs, i + 1, position)

\* get_ghost_danger(position), over the ghost collection gs
get_ghost_danger(gs, position) == DangerFrom(gs, 1, position)

----------------------------------------------------------------------------
(* AStarAgent: Path Search                                                 *)

\* Manhattan distance
heuristic(node, target_pos) ==
    Abs(node[1] - target_pos[1]) + Abs(node[2] - target_pos[2])

\* heapq.heappop: the least entry <<f, counter, node>>; the counters are
\* all different, so the nodes are never compared.
heappop(open_set) ==
    CHOOSE e \in open_set :
        \A o \in open_set : e[1] < o[1] \/ (e[1] = o[1] /\ e[2] <= o[2])

\* The for loop over the neighbours of the node just expanded.
\* st = [open_set, g_scores, came_from, counter, expanded]
RECURSIVE Relax(_, _, _, _, _, _, _, _)
Relax(m, gs, target_position, current_key, nbrs, i, st, visited) ==
    IF i > Len(nbrs) THEN st
    ELSE
        LET neighbor == nbrs[i][1]
            direction == nbrs[i][2]
            neighbor_key == get_node_key(neighbor)
            move_cost == TILEWIDTH
            ghost_danger == get_ghost_danger(gs, neighbor)
            new_g == st.g_scores[current_key] + move_cost + ghost_danger
            f == new_g + heuristic(neighbor, target_position)
        IN  IF neighbor_key \in visited
            THEN Relax(m, gs, target_position, current_key, nbrs, i + 1, st, visited)
            ELSE IF neighbor_key \notin DOMAIN st.g_scores \/ new_g < st.g_scores[neighbor_key]
            THEN Relax(m, gs, target_position, current_key, nbrs, i + 1,
                       [st EXCEPT !.g_scores = Put(@, neighbor_key, new_g),
                                  !.counter = @ + 1,
                                  !.came_from = Put(@, neighbor_key, <<current_key, direction>>),
                                  !.open_set = @ \cup {<<f, st.counter + 1, neighbor>>}],
                       visited)
            ELSE Relax(m, gs, target_position, current_key, nbrs, i + 1, st, visited)

\* The while loop of find_path without "if current_key in visited: continue".
RECURSIVE AStarLoopMutReexpand(_, _, _, _, _, _)
AStarLoopMutReexpand(m, gs, target_position, start_key, st, visited) ==
    IF st.open_set = {}
    THEN [path |-> <<>>, expanded |-> st.expanded, came_from |-> st.came_from,
          goal |-> None, pops |-> st.pops]
    ELSE
        LET e == heappop(st.open_set)
            current_node == e[3]
            current_key == get_node_key(current_node)
            popped == [st EXCEPT !.open_set = @ \ {e}, !.pops = @ + 1]
            seen == visited \cup {current_key}
            here == [popped EXCEPT !.expanded = Append(@, current_key)]
        IN  IF is_at_goal(current_node, target_position)
            THEN [path |-> reconstruct_path(st.came_from, start_key, current_key),
                  expanded |-> here.expanded, came_from |-> st.came_from,
                  goal |-> current_key, pops |-> here.pops]
            ELSE AStarLoopMutReexpand(m, gs, target_position, start_key,
                                      Relax(m, gs, target_position, current_key,
                                            get_neighbors(m, current_node), 1, here, seen),
                                      seen)

\* The while loop of find_path.  The value is [path, expanded, came_from,
\* goal, pops]: the path returned, the keys expanded in order, the
\* predecessor map, the key of the node accepted as the goal (None if there
\* is none) and the number of passes through the loop.
RECURSIVE AStarLoop(_, _, _, _, _, _)
AStarLoop(m, gs, target_position, start_key, st, visited) ==
    IF st.open_set = {}
    THEN [path |-> <<>>, expanded |-> st.expanded, came_from |-> st.came_from,
          goal |-> None, pops |-> st.pops]
    ELSE
        LET e == heappop(st.open_set)
            current_node == e[3]
            current_key == get_node_key(current_node)
            popped == [st EXCEPT !.open_set = @ \ {e}, !.pops = @ + 1]
            seen == visited \cup {current_key}
            here == [popped EXCEPT !.expanded = Append(@, current_key)]
        IN  IF current_key \in visited
            THEN AStarLoop(m, gs, target_position, start_key, popped, visited)
            ELSE IF is_at_goal(current_node, target_position)
            THEN [path |-> reconstruct_path(st.came_from, start_key, current_key),
                  expanded |-> here.expanded, came_from |-> st.came_from,
                  goal |-> current_key, pops |-> here.pops]
            ELSE AStarLoop(m, gs, target_position, start_key,
                           Relax(m, gs, target_position, current_key,
                                 get_neighbors(m, current_node), 1, here, seen),
                           seen)

\* The state of find_path before its loop.
AStarStart(start_node, target_position) ==
    [open_set |-> {<<heuristic(start_node, target_position), 0, start_node>>},
     g_scores |-> [k \in {get_node_key(start_node)} |-> 0],
     came_from |-> <<>>,
     counter |-> 0,
     expanded |-> <<>>,
     pops |-> 0]

AStarRunMutReexpand(m, gs, start_node, target_position) ==
    AStarLoopMutReexpand(m, gs, target_position, get_node_key(start_node),
                         AStarStart(start_node, target_position), {})

AStarRun(m, gs, start_node, target_position) ==
    AStarLoop(m, gs, target_position, get_node_key(start_node),
              AStarStart(start_node, target_position), {})

\* find_path giving up when the start node lies in the nearest danger tier.
find_pathMutThreatened(m, gs, start_node, target_position) ==
    IF start_node = None THEN <<>>
    ELSE IF is_at_goal(start_node, target_position) THEN <<>>
    ELSE IF get_ghost_danger(gs, start_node) >= 100000 THEN <<>>
    ELSE AStarRun(m, gs, start_node, target_position).path

find_path(m, gs, start_node, target_position) ==
    IF start_node = None THEN <<>>
    ELSE IF is_at_goal(start_node, target_position) THEN <<>>
    ELSE AStarRun(m, gs, start_node, target_position).path

----------------------------------------------------------------------------
(* BFSAgent and DFSAgent: Path Search.  A queue entry is <<node, path>>;   *)
(* the key kept with it in the code is the key of the node.                *)

popleftMutPop(queue) == <<queue[Len(queue)], SubSeq(queue, 1, Len(queue) - 1)>>

\* deque.popleft(): <<the entry taken, the queue left>>
popleft(queue) == <<Head(queue), Tail(queue)>>

\* The for loop over the neighbours of a node, in find_path_to_nearest_pellet:
\* [done, path, queue], done when a neighbour within the goal threshold of
\* some pellet was found.
RECURSIVE ExpandNearest(_, _, _, _, _, _)
ExpandNearest(pl, nbrs, i, path, queue, visited) ==
    IF i > Len(nbrs) THEN [done |-> FALSE, path |-> <<>>, queue |-> queue]
    ELSE
        LET neighbor == nbrs[i][1]
            direction == nbrs[i][2]
            new_path == Append(path, direction)
        IN  IF get_node_key(neighbor) \in visited
            THEN ExpandNearest(pl, nbrs, i + 1, path, queue, visited)
            ELSE IF AnyPelletAtGoal(pl, neighbor)
            THEN [done |-> TRUE, path |-> new_path, queue |-> queue]
            ELSE ExpandNearest(pl, nbrs, i + 1, path,
                               Append(queue, <<neighbor, new_path>>), visited)

RECURSIVE NearestLoop(_, _, _, _)
NearestLoop(m, pl, queue, visited) ==
    IF queue = <<>> THEN <<>>
    ELSE
        LET current_node == popleft(queue)[1][1]
            path == popleft(queue)[1][2]
            rest == popleft(queue)[2]
            current_key == get_node_key(current_node)
            seen == visited \cup {current_key}
            r == ExpandNearest(pl, get_neighbors(m, current_node), 1, path, rest, seen)
        IN  IF current_key \in visited THEN NearestLoop(m, pl, rest, visited)
            ELSE IF r.done THEN r.path
            ELSE NearestLoop(m, pl, r.queue, seen)

\* BFSAgent.find_path_to_nearest_pellet.  The first loop, over the
\* neighbours of the start node, runs before the visited set exists.
find_path_to_nearest_pellet(m, pl, start_node) ==
    IF start_node = None THEN <<>>
    ELSE
        LET first == ExpandNearest(pl, get_neighbors(m, start_node), 1, <<>>, <<>>, {})
        IN  IF first.done THEN first.path
            ELSE NearestLoop(m, pl, first.queue, {get_node_key(start_node)})

\* The for loop over the neighbours of a node, in find_shortest_path_to_pellet.
RECURSIVE ExpandShortest(_, _, _, _, _)
ExpandShortest(nbrs, i, path, queue, visited) ==
    IF i > Len(nbrs) THEN queue
    ELSE IF get_node_key(nbrs[i][1]) \in visited
    THEN ExpandShortest(nbrs, i + 1, path, queue, visited)
    ELSE ExpandShortest(nbrs, i + 1, path,
                        Append(queue, <<nbrs[i][1], Append(path, nbrs[i][2])>>), visited)

RECURSIVE ShortestLoop(_, _, _, _)
ShortestLoop(m, target_position, queue, visited) ==
    IF queue = <<>> THEN <<>>
    ELSE
        LET current_node == popleft(queue)[1][1]
            path == popleft(queue)[1][2]
            rest == popleft(queue)[2]
            current_key == get_node_key(current_node)
            seen == visited \cup {current_key}
        IN  IF current_key \in visited THEN ShortestLoop(m, target_position, rest, visited)
            ELSE IF is_at_goal(current_node, target_position) THEN path
            ELSE ShortestLoop(m, target_position,
                              ExpandShortest(get_neighbors(m, current_node), 1, path, rest, seen),
                              seen)

\* find_shortest_path_to_pellet aiming at the last pellet of the list instead
\* of the first.
find_shortest_path_to_pelletMutLast(m, pl, start_node) ==
    IF start_node = None THEN <<>>
    ELSE IF pl = <<>> THEN <<>>
    ELSE IF is_at_goal(start_node, pl[Len(pl)].position) THEN <<>>
    ELSE ShortestLoop(m, pl[Len(pl)].position, <<<<start_node, <<>>>>>>, {})

\* DFSAgent.find_shortest_path_to_pellet
find_shortest_path_to_pellet(m, pl, start_node) ==
    IF start_node = None THEN <<>>
    ELSE IF pl = <<>> THEN <<>>
    ELSE IF is_at_goal(start_node, pl[1].position) THEN <<>>
    ELSE ShortestLoop(m, pl[1].position, <<<<start_node, <<>>>>>>, {})

----------------------------------------------------------------------------
(* get_direction of the three agents.  Each operator takes the world as    *)
(* the agent sees it (graph m, pellet list pl, ghosts gs, character pac)   *)
(* and the agent ag, and yields the agent after the call, the direction    *)
(* returned (ret), the return statement that produced it (branch), whether *)
(* the call assigned a newly searched path to current_path (planned) and   *)
(* the pellet position that search was given (target, None without one).   *)

\* AIAgent.get_current_node: the effective node
get_current_node(pac) ==
    IF pac.target # None /\ pac.target # pac.node THEN pac.target ELSE pac.node

\* (int(position.x), int(position.y))
IntPosition(position) == <<position[1], position[2]>>

\* "for pellet in pelletList: if (int(x), int(y)) == self.current_goal"
goal_exists(pl, current_goal) ==
    \E i \in 1..Len(pl) : IntPosition(pl[i].position) = current_goal

\* should_replan that records the new node but leaves the path as it is.
should_replanMutNoPop(pl, ag, current_node) ==
    IF ag.current_path = <<>> THEN [agent |-> ag, ret |-> TRUE]
    ELSE IF ag.current_goal # None /\ ~goal_exists(pl, ag.current_goal)
    THEN [agent |-> ag, ret |-> TRUE]
    ELSE
        LET current_key == get_node_key(current_node)
        IN  IF current_key # ag.last_node
            THEN [agent |-> [ag EXCEPT !.last_node = current_key],
                  ret |-> Len(ag.current_path) <= 1]
            ELSE [agent |-> ag, ret |-> FALSE]

\* AIAgent.should_replan(current_node): the agent after the call and the
\* value returned.
should_replan(pl, ag, current_node) ==
    IF ag.current_path = <<>> THEN [agent |-> ag, ret |-> TRUE]
    ELSE IF ag.current_goal # None /\ ~goal_exists(pl, ag.current_goal)
    THEN [agent |-> ag, ret |-> TRUE]
    ELSE
        LET current_key == get_node_key(current_node)
        IN  IF current_key # ag.last_node
            THEN IF Len(ag.current_path) > 1
                 THEN [agent |-> [ag EXCEPT !.last_node = current_key,
                                            !.current_path = Tail(@)],
                       ret |-> FALSE]
                 ELSE [agent |-> [ag EXCEPT !.last_node = current_key,
                                            !.current_path = <<>>],
                       ret |-> TRUE]
            ELSE [agent |-> ag, ret |-> FALSE]

\* The loop of find_safest_direction from neighbour i on, with the best
\* direction and the lowest danger so far (-1 stands for infinity).
RECURSIVE SafestFrom(_, _, _, _, _)
SafestFrom(gs, nbrs, i, best_direction, lowest_danger) ==
    IF i > Len(nbrs) THEN <<best_direction, lowest_danger>>
    ELSE
        LET danger == get_ghost_danger(gs, nbrs[i][1])
        IN  IF lowest_danger = -1 \/ danger < lowest_danger
            THEN SafestFrom(gs, nbrs, i + 1, nbrs[i][2], danger)
            ELSE SafestFrom(gs, nbrs, i + 1, best_direction, lowest_danger)

find_safest_directionMutZero(m, gs, current_node) ==
    SafestFrom(gs, get_neighbors(m, current_node), 1, STOP, 0)

\* AStarAgent.find_safest_direction: <<best_direction, lowest_danger>>
find_safest_direction(m, gs, current_node) ==
    SafestFrom(gs, get_neighbors(m, current_node), 1, STOP, -1)

\* The loop of select_safest_pellet from pellet i on.  The score
\* danger + dist_to_pacman * 0.01 is kept multiplied by 100; -1 stands for
\* infinity and 0 for "no pellet yet".
RECURSIVE SelectFrom(_, _, _, _, _, _)
SelectFrom(gs, pl, position, i, best, lowest) ==
    IF i > Len(pl) THEN best
    ELSE
        LET danger == get_ghost_danger(gs, pl[i].position)
            dist_to_pacman == magnitudeSquared(pl[i].position, position)
            score == 100 * danger + dist_to_pacman
        IN  IF lowest = -1 \/ score < lowest
            THEN SelectFrom(gs, pl, position, i + 1, i, score)
            ELSE SelectFrom(gs, pl, position, i + 1, best, lowest)

\* The loop of select_safest_pellet with "<=" for "<": the last of several
\* pellets of least score.
RECURSIVE SelectFromMutLast(_, _, _, _, _, _)
SelectFromMutLast(gs, pl, position, i, best, lowest) ==
    IF i > Len(pl) THEN best
    ELSE
        LET danger == get_ghost_danger(gs, pl[i].position)
            dist_to_pacman == magnitudeSquared(pl[i].position, position)
            score == 100 * danger + dist_to_pacman
        IN  IF lowest = -1 \/ score <= lowest
            THEN SelectFromMutLast(gs, pl, position, i + 1, i, score)
            ELSE SelectFromMutLast(gs, pl, position, i + 1, best, lowest)

select_safest_pelletMutLast(gs, pl, position) ==
    IF pl = <<>> THEN 0 ELSE SelectFromMutLast(gs, pl, position, 1, 0, -1)

\* AStarAgent.select_safest_pellet: the index of the pellet chosen, 0 for None
select_safest_pellet(gs, pl, position) ==
    IF pl = <<>> THEN 0 ELSE SelectFrom(gs, pl, position, 1, 0, -1)

CurrentDangerTooHighMut(current_danger) == current_danger >= 100000

\* "if current_danger >= 10000"
CurrentDangerTooHigh(current_danger) == current_danger >= 10000

NextDangerTooHighMut(next_danger) == next_danger >= 100000

\* "if next_danger >= 10000"
NextDangerTooHigh(next_danger) == next_danger >= 10000

\* AStarAgent.get_direction from "Return next direction from path" on.
AStarStep(m, gs, current_node, ag, searched, aim) ==
    IF ag.current_path # <<>>
    THEN
        LET direction == Head(ag.current_path)
            popped == [ag EXCEPT !.current_path = Tail(@)]
            neighbor == Neighbor(m, current_node, direction)
        IN  IF neighbor # None /\ NextDangerTooHigh(get_ghost_danger(gs, neighbor))
            THEN [agent |-> [popped EXCEPT !.current_path = <<>>],
                  ret |-> find_safest_direction(m, gs, current_node)[1],
                  branch |-> "recheck", planned |-> searched, target |-> aim]
            ELSE [agent |-> popped, ret |-> direction, branch |-> "path",
                  planned |-> searched, target |-> aim]
    ELSE [agent |-> ag,
          ret |-> find_safest_direction(m, gs, current_node)[1],
          branch |-> "fallback", planned |-> searched, target |-> aim]

\* AStarAgent.get_direction from "Get current position to detect movement" on.
AStarPlan(m, pl, gs, pac, current_node, ag) ==
    LET current_pos == IntPosition(pac.position)
        target_pellet == select_safest_pellet(gs, pl, pac.position)
    IN  IF current_pos # ag.last_position \/ ag.current_path = <<>>
        THEN IF pl = <<>>
             THEN [agent |-> [ag EXCEPT !.last_position = current_pos],
                   ret |-> find_safest_direction(m, gs, current_node)[1],
                   branch |-> "no_pellets", planned |-> FALSE, target |-> None]
             ELSE IF target_pellet # 0
             THEN AStarStep(m, gs, current_node,
                      [ag EXCEPT !.last_position = current_pos,
                                 !.current_path =
                                     find_path(m, gs, current_node,
                                               pl[target_pellet].position)],
                      TRUE, pl[target_pellet].position)
             ELSE AStarStep(m, gs, current_node,
                      [ag EXCEPT !.last_position = current_pos], FALSE, None)
        ELSE AStarStep(m, gs, current_node, ag, FALSE, None)

AStar_get_direction(m, pl, gs, pac, ag) ==
    LET current_node == get_current_node(pac)
        current_danger == get_ghost_danger(gs, pac.position)
        safe_direction == find_safest_direction(m, gs, current_node)[1]
        cleared == [ag EXCEPT !.current_path = <<>>, !.last_position = None]
    IN  IF current_node = None
        THEN [agent |-> ag, ret |-> STOP, branch |-> "no_node",
              planned |-> FALSE, target |-> None]
        ELSE IF CurrentDangerTooHigh(current_danger)
        THEN IF safe_direction # STOP
             THEN [agent |-> cleared, ret |-> safe_direction, branch |-> "override",
                   planned |-> FALSE, target |-> None]
             ELSE AStarPlan(m, pl, gs, pac, current_node, cleared)
        ELSE AStarPlan(m, pl, gs, pac, current_node, ag)

FirstDirectionMutNoValue(m, current_node) ==
    IF get_neighbors(m, current_node) # <<>>
    THEN [ret |-> get_neighbors(m, current_node)[1][2], branch |-> "fallback"]
    ELSE [ret |-> Unset, branch |-> "stop"]

\* "for neighbor, direction in get_neighbors(current_node): return direction"
FirstDirection(m, current_node) ==
    IF get_neighbors(m, current_node) # <<>>
    THEN [ret |-> get_neighbors(m, current_node)[1][2], branch |-> "fallback"]
    ELSE [ret |-> STOP, branch |-> "stop"]

EarlyReturnMutClear(ag, statement) ==
    [agent |-> [ag EXCEPT !.current_path = <<>>], ret |-> STOP,
     branch |-> statement, planned |-> FALSE, target |-> None]

\* Every "return STOP" that comes before any planning.
EarlyReturn(ag, statement) ==
    [agent |-> ag, ret |-> STOP, branch |-> statement, planned |-> FALSE, target |-> None]

\* get_direction of BFSAgent and of DFSAgent after the two early returns;
\* path is what the agent's own search returns from the effective node and
\* aim the pellet position that search is given.
CachedStep(m, pac, current_node, ag, path, aim) ==
    LET current_pos == IntPosition(pac.position)
        replan == current_pos # ag.last_position \/ ag.current_path = <<>>
        after ==
            IF replan
            THEN [ag EXCEPT !.last_position = current_pos, !.current_path = path]
            ELSE ag
    IN  IF after.current_path # <<>>
        THEN [agent |-> [after EXCEPT !.current_path = Tail(@)],
              ret |-> Head(after.current_path),
              branch |-> "path",
              planned |-> replan, target |-> IF replan THEN aim ELSE None]
        ELSE [agent |-> after,
              ret |-> FirstDirection(m, current_node).ret,
              branch |-> FirstDirection(m, current_node).branch,
              planned |-> replan, target |-> IF replan THEN aim ELSE None]

BFS_get_directionMutNoEmptyCheck(m, pl, pac, ag) ==
    LET current_node == get_current_node(pac)
    IN  IF current_node = None
        THEN EarlyReturn(ag, "no_node")
        ELSE CachedStep(m, pac, current_node, ag,
                        find_path_to_nearest_pellet(m, pl, current_node), None)

BFS_get_direction(m, pl, pac, ag) ==
    LET current_node == get_current_node(pac)
    IN  IF pl = <<>>
        THEN EarlyReturn(ag, "no_pellets")
        ELSE IF current_node = None
        THEN EarlyReturn(ag, "no_node")
        ELSE CachedStep(m, pac, current_node, ag,
                        find_path_to_nearest_pellet(m, pl, current_node), None)

DFS_get_direction(m, pl, pac, ag) ==
    LET current_node == get_current_node(pac)
    IN  IF pl = <<>>
        THEN EarlyReturn(ag, "no_pellets")
        ELSE IF current_node = None
        THEN EarlyReturn(ag, "no_node")
        ELSE CachedStep(m, pac, current_node, ag,
                        find_shortest_path_to_pellet(m, pl, current_node),
                        pl[1].position)

AI_NONE == "AI_NONE"
AI_ASTAR == "AI_ASTAR"
AI_BFS == "AI_BFS"
AI_DFS == "AI_DFS"

get_directionMutThreatInBFS(m, pl, gs, pac, ag) ==
    CASE ag.kind = AI_ASTAR -> AStar_get_direction(m, pl, gs, pac, ag)
      [] ag.kind = AI_BFS ->
             IF CurrentDangerTooHigh(get_ghost_danger(gs, pac.position))
             THEN AStar_get_direction(m, pl, gs, pac, ag)
             ELSE BFS_get_direction(m, pl, pac, ag)
      [] ag.kind = AI_DFS -> DFS_get_direction(m, pl, pac, ag)

\* The agent's get_direction, by the class create_agent built it from.
get_direction(m, pl, gs, pac, ag) ==
    CASE ag.kind = AI_ASTAR -> AStar_get_direction(m, pl, gs, pac, ag)
      [] ag.kind = AI_BFS -> BFS_get_direction(m, pl, pac, ag)
      [] ag.kind = AI_DFS -> DFS_get_direction(m, pl, pac, ag)

\* create_agent: for the three AI modes the state __init__ leaves, for any
\* other mode no agent ("return None").
create_agent(ai_mode) ==
    IF ai_mode \in {AI_ASTAR, AI_BFS, AI_DFS}
    THEN [kind |-> ai_mode, current_path |-> <<>>, current_goal |-> None,
          last_node |-> None, last_position |-> None]
    ELSE NoAgent

update_ai_agentMutReuse(ai_mode, ai_agent) ==
    IF ai_mode # AI_NONE
    THEN IF ai_agent.kind = ai_mode THEN ai_agent ELSE create_agent(ai_mode)
    ELSE NoAgent

\* GameController.update_ai_agent: the value assigned to self.ai_agent, which
\* held ai_agent before (the character exists once the game has started).
update_ai_agent(ai_mode, ai_agent) ==
    IF ai_mode # AI_NONE THEN create_agent(ai_mode) ELSE NoAgent

----------------------------------------------------------------------------
(* The host loop around one agent (GameController.update).  Between two    *)
(* direction queries the host may move the character, remove a pellet and  *)
(* move the ghost or change its mode; the agent only reads the world.      *)

MaxQueries == 3

MaxPellets == 2

\* Where pellets may lie: on nodes, on the tile between two nodes, and on a
\* tile off the corridors that is within the goal threshold of four nodes.
PelletSites ==
    {TileAt(0, 0), TileAt(1, 0), TileAt(1, 1), TileAt(2, 2),
     TileAt(4, 2), TileAt(4, 3), TileAt(4, 4)}

\* Lists of at most MaxPellets pellets on different sites.
PelletLists ==
    {pl \in UNION {[1..k -> [position : PelletSites, name : {PELLET}]] : k \in 0..MaxPellets} :
        \A i, j \in 1..Len(pl) : i # j => pl[i].position # pl[j].position}

\* Where the ghost of a level may be: on two nodes of the maze and two
\* tiles to the right of its top right corner.
GhostSites == {NodeAt(1, 0), NodeAt(1, 1), NodeAt(3, 0)}

\* The level is played on maze 2.
LevelMaze == 2

\* Pellets of the level: on the tile between the first two nodes of the top
\* row, on the bottom node of the middle column, and on the node that has
\* no neighbours.
LevelPelletSites == {TileAt(1, 0), TileAt(2, 4), TileAt(4, 4)}

LevelPelletLists ==
    {pl \in UNION {[1..k -> [position : LevelPelletSites, name : {PELLET}]] : k \in 0..MaxPellets} :
        \A i, j \in 1..Len(pl) : i # j => pl[i].position # pl[j].position}

\* The level's ghost: hunting on the centre node, hunting two tiles to the
\* right of the top right corner, or on its way home.
LevelGhosts ==
    {<<[position |-> NodeAt(1, 1), mode |-> CHASE]>>,
     <<[position |-> NodeAt(3, 0), mode |-> CHASE]>>,
     <<[position |-> NodeAt(1, 1), mode |-> SPAWN]>>}

\* The character standing on a node.
AtRest(n) == [node |-> n, target |-> n, position |-> n]

Midpoint(a, b) == <<(a[1] + b[1]) \div 2, (a[2] + b[2]) \div 2>>

\* Where the character can be after its next movement update:
\*   standing on a node, it is half-way along a permitted edge;
\*   half-way, it arrives on the target node or has turned back.
PacmanMoves(m, pac) ==
    IF pac.target = pac.node
    THEN {[node |-> pac.node, target |-> nd[1],
           position |-> Midpoint(pac.node, nd[1])] :
              nd \in {get_neighbors(m, pac.node)[i] : i \in 1..Len(get_neighbors(m, pac.node))}}
    ELSE {AtRest(pac.target),
          [node |-> pac.target, target |-> pac.node, position |-> pac.position]}

Init ==
    /\ maze = LevelMaze
    /\ pelletList \in LevelPelletLists
    /\ ghosts \in LevelGhosts
    /\ pacman \in {AtRest(NodeAt(0, 0)), AtRest(NodeAt(2, 2))}
    /\ agent \in {create_agent(k) : k \in {AI_ASTAR, AI_BFS, AI_DFS}}
    \* "if self.ai_mode == AI_DFS: self.pellets.reduce_to_one_pellet()"
    /\ agent.kind = AI_DFS => Len(pelletList) <= 1
    /\ NoQuery
    /\ probe = NoProbe
    /\ result = NoProbe

\* What every change of the world does to the record of the queries.
WorldChanged ==
    /\ ret' = Unset
    /\ branch' = Unset
    /\ quietN' = 0
    /\ path0' = <<>>
    /\ cached' = <<>>
    /\ planned' = FALSE
    /\ UNCHANGED <<maze, agent, goal, probe, result>>

\* pacman.update(dt)
HostMovesPacman ==
    /\ \E pac \in PacmanMoves(maze, pacman) : pacman' = pac
    /\ UNCHANGED <<pelletList, ghosts>>
    /\ WorldChanged

\* checkPelletEvents: self.pellets.pelletList.remove(pellet)
HostRemovesPellet ==
    /\ \E i \in 1..Len(pelletList) :
          pelletList' = SubSeq(pelletList, 1, i - 1) \o SubSeq(pelletList, i + 1, Len(pelletList))
    /\ UNCHANGED <<pacman, ghosts>>
    /\ WorldChanged

\* ghosts.update(dt)
HostMovesGhost ==
    /\ \E gs \in LevelGhosts \ {ghosts} : ghosts' = gs
    /\ UNCHANGED <<pacman, pelletList>>
    /\ WorldChanged

\* direction = self.ai_agent.get_direction()
GetDirection ==
    /\ quietN < MaxQueries
    /\ LET r == get_direction(maze, pelletList, ghosts, pacman, agent)
       IN  /\ agent' = r.agent
           /\ ret' = r.ret
           /\ branch' = r.branch
           /\ path0' = IF quietN = 0 THEN r.agent.current_path ELSE path0
           /\ planned' = r.planned
           /\ goal' = IF r.planned THEN r.target ELSE goal
    /\ cached' = agent.current_path
    /\ quietN' = quietN + 1
    /\ UNCHANGED <<maze, pelletList, ghosts, pacman, probe, result>>

Next == HostMovesPacman \/ HostRemovesPellet \/ HostMovesGhost \/ GetDirection

Spec == Init /\ [][Next]_vars

----------------------------------------------------------------------------
(* get_direction for a character that has no node and no target yet, by an *)
(* agent in any state of its cache                                         *)

CachedPaths == {<<>>, <<UP>>, <<LEFT, DOWN>>, <<RIGHT, RIGHT, UP>>}

InitNoNode ==
    /\ maze = LevelMaze
    /\ pelletList \in LevelPelletLists
    /\ ghosts \in LevelGhosts
    /\ pacman = NoPacman
    /\ agent \in {[create_agent(k) EXCEPT !.current_path = path, !.last_position = pos] :
                      k \in {AI_ASTAR, AI_BFS, AI_DFS}, path \in CachedPaths,
                      pos \in {None, <<0, 0>>}}
    /\ NoQuery
    /\ probe = NoProbe
    /\ result = NoProbe

NextNoNode == GetDirection

SpecNoNode == InitNoNode /\ [][NextNoNode]_vars

----------------------------------------------------------------------------
(* Two runs of the BFS agent side by side.  Both see the same graph, the   *)
(* same pellets and the same character; the second run, kept in result,    *)
(* has a ghost of its own, which stays on its way home while the ghost of  *)
(* the first run moves and hunts.                                          *)

InitTwin ==
    /\ maze = LevelMaze
    /\ pelletList \in LevelPelletLists
    /\ ghosts \in LevelGhosts
    /\ pacman = AtRest(NodeAt(0, 0))
    /\ agent = create_agent(AI_BFS)
    /\ NoQuery
    /\ probe = [op |-> "twin"]
    /\ result = [op |-> "twin", ghosts |-> <<[position |-> NodeAt(1, 1), mode |-> SPAWN]>>,
                 agent |-> create_agent(AI_BFS), ret |-> Unset]

\* direction = self.ai_agent.get_direction(), in both runs
QueryBoth ==
    /\ quietN < MaxQueries
    /\ LET r == get_direction(maze, pelletList, ghosts, pacman, agent)
           twin == get_direction(maze, pelletList, result.ghosts, pacman, result.agent)
       IN  /\ agent' = r.agent
           /\ ret' = r.ret
           /\ branch' = r.branch
           /\ path0' = IF quietN = 0 THEN r.agent.current_path ELSE path0
           /\ planned' = r.planned
           /\ goal' = IF r.planned THEN r.target ELSE goal
           /\ result' = [result EXCEPT !.agent = twin.agent, !.ret = twin.ret]
    /\ cached' = agent.current_path
    /\ quietN' = quietN + 1
    /\ UNCHANGED <<maze, pelletList, ghosts, pacman, probe>>

NextTwin == HostMovesPacman \/ HostRemovesPellet \/ HostMovesGhost \/ QueryBoth

SpecTwin == InitTwin /\ [][NextTwin]_vars

----------------------------------------------------------------------------
(* The strategy factory: the agents that successive mode switches create,  *)
(* all kept at hand and queried in any order.  probe.modes lists the modes *)
(* requested and result.agents the agents returned for them.               *)

MaxAgents == 3

AIModes == {AI_NONE, AI_ASTAR, AI_BFS, AI_DFS}

FactoryCalled == probe.op = "create_agent"

InitFactory ==
    /\ maze = LevelMaze
    /\ pelletList \in {pl \in LevelPelletLists : Len(pl) = 1}
    /\ ghosts = <<[position |-> NodeAt(3, 0), mode |-> CHASE]>>
    /\ pacman = AtRest(NodeAt(0, 0))
    /\ agent = NoAgent
    /\ NoQuery
    /\ probe = [op |-> "create_agent", modes |-> <<>>]
    /\ result = [op |-> "create_agent", agents |-> <<>>]

\* set_ai_mode / startGame: self.update_ai_agent()
UpdateAIAgent ==
    /\ Len(probe.modes) < MaxAgents
    /\ \E mode \in AIModes :
          /\ agent' = update_ai_agent(mode, agent)
          /\ probe' = [probe EXCEPT !.modes = Append(@, mode)]
          /\ result' = [result EXCEPT !.agents = Append(@, update_ai_agent(mode, agent))]
    /\ UNCHANGED <<maze, pelletList, ghosts, pacman, queryVars>>

\* get_direction of any one of the agents created so far
QueryAgent ==
    /\ quietN < MaxQueries
    /\ \E i \in 1..Len(result.agents) :
          /\ result.agents[i] # NoAgent
          /\ LET r == get_direction(maze, pelletList, ghosts, pacman, result.agents[i])
             IN  /\ result' = [result EXCEPT !.agents[i] = r.agent]
                 /\ agent' = IF i = Len(result.agents) THEN r.agent ELSE agent
                 /\ ret' = r.ret
                 /\ branch' = r.branch
                 /\ planned' = r.planned
                 /\ goal' = IF r.planned THEN r.target ELSE goal
          /\ cached' = result.agents[i].current_path
    /\ quietN' = quietN + 1
    /\ UNCHANGED <<maze, pelletList, ghosts, pacman, path0, probe>>

NextFactory == UpdateAIAgent \/ QueryAgent

SpecFactory == InitFactory /\ [][NextFactory]_vars

----------------------------------------------------------------------------
(* Direct calls of the Threat Model on drawn arguments                     *)

MaxGhosts == 2

\* Probe positions: along a row, every half tile out to twelve tiles, and
\* one row a tile and a half below it.
LinePositions ==
    {<<h * (TILEWIDTH \div 2), y>> : h \in 0..24, y \in {0, 3 * (TILEWIDTH \div 2)}}

GhostSpots == {<<0, 0>>, <<5 * TILEWIDTH, 0>>}

GhostLists ==
    UNION {[1..k -> [position : GhostSpots, mode : Modes]] : k \in 0..MaxGhosts}

InitDanger ==
    /\ maze = 1
    /\ pelletList = <<>>
    /\ ghosts \in GhostLists
    /\ pacman = NoPacman
    /\ agent = NoAgent
    /\ NoQuery
    /\ probe = NoProbe
    /\ result = NoProbe

\* get_ghost_danger at two positions, under the same ghosts.
CallDanger ==
    /\ probe.op = Unset
    /\ \E p \in LinePositions, q \in LinePositions :
          /\ probe' = [op |-> "get_ghost_danger", p |-> p, q |-> q]
          /\ result' = [op |-> "get_ghost_danger",
                        p |-> get_ghost_danger(ghosts, p),
                        q |-> get_ghost_danger(ghosts, q)]
    /\ UNCHANGED <<worldVars, queryVars>>

NextDanger == CallDanger

SpecDanger == InitDanger /\ [][NextDanger]_vars

----------------------------------------------------------------------------
(* Direct calls of the three search routines on drawn arguments            *)

SearchGhostLists ==
    {<<>>} \cup {<<[position |-> p, mode |-> CHASE]>> : p \in GhostSites}

InitSearch ==
    /\ maze \in DOMAIN Mazes
    /\ pelletList \in PelletLists
    /\ ghosts \in SearchGhostLists
    /\ pacman = NoPacman
    /\ agent = NoAgent
    /\ NoQuery
    /\ probe = NoProbe
    /\ result = NoProbe

\* AStarAgent.find_path from a node, or from no node, toward one of the
\* pellets.
CallFindPath ==
    /\ probe.op = Unset
    /\ \E start \in Nodes(maze) \cup {None}, i \in 1..Len(pelletList) :
          /\ probe' = [op |-> "find_path", start |-> start,
                       target |-> pelletList[i].position]
          /\ result' = [op |-> "find_path",
                        path |-> find_path(maze, ghosts, start, pelletList[i].position),
                        run |-> IF start = None \/ is_at_goal(start, pelletList[i].position)
                                THEN None
                                ELSE AStarRun(maze, ghosts, start, pelletList[i].position)]
    /\ UNCHANGED <<worldVars, queryVars>>

\* BFSAgent.find_path_to_nearest_pellet from a node.
CallNearest ==
    /\ probe.op = Unset
    /\ \E start \in Nodes(maze) :
          /\ probe' = [op |-> "find_path_to_nearest_pellet", start |-> start]
          /\ result' = [op |-> "find_path_to_nearest_pellet",
                        path |-> find_path_to_nearest_pellet(maze, pelletList, start)]
    /\ UNCHANGED <<worldVars, queryVars>>

\* DFSAgent.find_shortest_path_to_pellet from a node.
CallShortest ==
    /\ probe.op = Unset
    /\ \E start \in Nodes(maze) :
          /\ probe' = [op |-> "find_shortest_path_to_pellet", start |-> start]
          /\ result' = [op |-> "find_shortest_path_to_pellet",
                        path |-> find_shortest_path_to_pellet(maze, pelletList, start)]
    /\ UNCHANGED <<worldVars, queryVars>>

\* AIAgent.get_neighbors of a node.
CallNeighbors ==
    /\ probe.op = Unset
    /\ \E start \in Nodes(maze) :
          /\ probe' = [op |-> "get_neighbors", start |-> start]
          /\ result' = [op |-> "get_neighbors", pairs |-> get_neighbors(maze, start)]
    /\ UNCHANGED <<worldVars, queryVars>>

\* A position with no node of any maze within the goal threshold.
Nowhere == <<-10 * Spacing, -10 * Spacing>>

\* The predecessor map find_path is left with after a search from root that
\* has gone through every node it can reach.
PredecessorsFrom(m, root) == AStarRun(m, <<>>, root, Nowhere).came_from

\* AIAgent.reconstruct_path on a predecessor map, a start key and a goal key.
CallReconstruct ==
    /\ probe.op = Unset
    /\ pelletList = <<>>
    /\ ghosts = <<>>
    /\ \E root \in {NodeAt(0, 0), NodeAt(1, 0)} \cap Nodes(maze) :
          LET came_from == PredecessorsFrom(maze, root)
          IN  \E start_key \in {root} \cup DOMAIN came_from, goal_key \in DOMAIN came_from :
                /\ probe' = [op |-> "reconstruct_path", came_from |-> came_from,
                             start |-> start_key, goal |-> goal_key]
                /\ result' = [op |-> "reconstruct_path",
                              path |-> reconstruct_path(came_from, start_key, goal_key)]
    /\ UNCHANGED <<worldVars, queryVars>>

NextSearch ==
    CallFindPath \/ CallNearest \/ CallShortest \/ CallNeighbors \/ CallReconstruct

SpecSearch == InitSearch /\ [][NextSearch]_vars

----------------------------------------------------------------------------
(* pellets.py: the PelletGroup.  A group is a record of the fields of the  *)
(* object; a pellet is [position, name], and a pellet file is the sequence *)
(* of pellets createPelletList reads from it, row by row.                  *)

Pellet(row, column) == [position |-> TileAt(column, row), name |-> PELLET]

PowerPellet(row, column) == [position |-> TileAt(column, row), name |-> POWERPELLET]

\* The pellet files of the levels: one with a power pellet before two
\* regular pellets, one with power pellets only.
PelletFiles ==
    <<<<PowerPellet(0, 1), Pellet(4, 2), Pellet(4, 4)>>,
      <<PowerPellet(0, 1), PowerPellet(4, 4)>>>>

\* The power pellets of a list, in its order.
PowerOf(pl) == SelectSeq(pl, LAMBDA pellet : pellet.name = POWERPELLET)

\* PelletGroup.__init__(pelletfile)
PelletGroup(pelletfile) ==
    [pelletList |-> PelletFiles[pelletfile],
     powerpellets |-> PowerOf(PelletFiles[pelletfile]),
     pelletfile |-> pelletfile,
     numEaten |-> 0,
     originalPelletList |-> <<>>,
     originalPowerPellets |-> <<>>,
     originalNumEaten |-> 0,
     is_dfs_mode |-> FALSE]

store_original_pellets(pg) ==
    [pg EXCEPT !.originalPelletList = pg.pelletList,
               !.originalPowerPellets = pg.powerpellets,
               !.originalNumEaten = pg.numEaten]

\* "for pellet in self.pelletList: if pellet.name == PELLET: ... break", then
\* "if single_pellet is None: single_pellet = self.pelletList[0]"
single_pellet(pl) ==
    IF \E i \in 1..Len(pl) : pl[i].name = PELLET
    THEN pl[CHOOSE i \in 1..Len(pl) :
                /\ pl[i].name = PELLET
                /\ \A j \in 1..(i - 1) : pl[j].name # PELLET]
    ELSE pl[1]

\* The group with its pellets reduced to the one chosen.
Keep(pg, pellet) ==
    [pg EXCEPT !.pelletList = <<pellet>>,
               !.powerpellets = IF pellet.name = POWERPELLET THEN <<pellet>> ELSE <<>>]

\* reduce_to_one_pellet keeping the first pellet, whatever its category.
reduce_to_one_pelletMutFirst(pg) ==
    LET stored == IF ~pg.is_dfs_mode
                  THEN [store_original_pellets(pg) EXCEPT !.is_dfs_mode = TRUE]
                  ELSE pg
    IN  IF stored.pelletList # <<>>
        THEN Keep(stored, stored.pelletList[1])
        ELSE stored

\* PelletGroup.reduce_to_one_pellet
reduce_to_one_pellet(pg) ==
    LET stored == IF ~pg.is_dfs_mode
                  THEN [store_original_pellets(pg) EXCEPT !.is_dfs_mode = TRUE]
                  ELSE pg
    IN  IF stored.pelletList # <<>>
        THEN Keep(stored, single_pellet(stored.pelletList))
        ELSE stored

\* PelletGroup.restore_original_pellets
restore_original_pellets(pg) ==
    IF pg.is_dfs_mode /\ pg.originalPelletList # <<>>
    THEN [pg EXCEPT !.pelletList = PelletFiles[pg.pelletfile],
                    !.powerpellets = PowerOf(PelletFiles[pg.pelletfile]),
                    !.numEaten = pg.originalNumEaten,
                    !.is_dfs_mode = FALSE]
    ELSE pg

----------------------------------------------------------------------------
(* run.py: the controller and its pellet group over the levels.  probe     *)
(* holds the fields of the GameController and, for the properties, the     *)
(* pellet list as the latest reduce_to_one_pellet found and left it;       *)
(* result holds the fields of the PelletGroup beside pelletList.           *)
(* probe.objects names the pacman, nodes, pellets and ghosts objects of    *)
(* the controller and probe.bound those the agent was created with.        *)

MaxLevel == 1

\* How many times startGame may run.
MaxStarts == 3

\* "self.lives = 5"
Lives == 5

\* The pacman, nodes, pellets and ghosts objects that the k-th run of
\* startGame makes; Objects(0) stands for no objects.
Objects(k) == [pacman |-> k, nodes |-> k, pellets |-> k, ghosts |-> k]

\* update_ai_agent: the objects create_agent is given for the new agent.
bound_objects(ai_mode, objects) ==
    IF ai_mode # AI_NONE THEN objects ELSE Objects(0)

\* numEaten grows without bound when modes are switched back and forth.
MaxEaten == 4

\* mazedata.loadMaze(self.level): the levels take the files in turn.
FileOfLevel(level) == (level % Len(PelletFiles)) + 1

\* self.pellets
ThePellets == [result.group EXCEPT !.pelletList = pelletList]

\* The controller after a reduce_to_one_pellet call that found the list pl
\* and left the group pg.
Reduced(controller, pl, pg) ==
    [controller EXCEPT !.before = pl, !.after = pg.pelletList, !.reductions = 1]

InitGame ==
    /\ maze = LevelMaze
    /\ pelletList = <<>>
    /\ ghosts = <<[position |-> NodeAt(3, 0), mode |-> CHASE]>>
    /\ pacman = NoPacman
    /\ agent = NoAgent
    /\ NoQuery
    /\ probe = [op |-> "game", ai_mode |-> AI_NONE, started |-> FALSE, level |-> 0,
                pending |-> FALSE, before |-> <<>>, after |-> <<>>, reductions |-> 0,
                lives |-> Lives, starts |-> 0, objects |-> Objects(0),
                bound |-> Objects(0), ai_controlled |-> FALSE]
    /\ result = [op |-> "game", group |-> [PelletGroup(1) EXCEPT !.pelletList = <<>>]]

\* What startGame does at a level, but for the agent: new_agent is the
\* agent the controller holds afterwards and new_bound the objects it was
\* created with.
Started(level, pending, lives, new_agent, new_bound) ==
    LET fresh == PelletGroup(FileOfLevel(level))
        pg == IF probe.ai_mode = AI_DFS THEN reduce_to_one_pellet(fresh) ELSE fresh
        controller == [probe EXCEPT !.started = TRUE, !.level = level, !.pending = pending,
                                    !.lives = lives, !.starts = @ + 1,
                                    !.objects = Objects(probe.starts + 1),
                                    !.bound = new_bound,
                                    !.ai_controlled = (probe.ai_mode # AI_NONE)]
    IN  /\ probe.starts < MaxStarts
        /\ pelletList' = pg.pelletList
        /\ result' = [result EXCEPT !.group = pg]
        /\ probe' = IF probe.ai_mode = AI_DFS
                     THEN Reduced(controller, fresh.pelletList, pg)
                     ELSE controller
        /\ pacman' = AtRest(NodeAt(0, 0))
        /\ agent' = new_agent
        /\ UNCHANGED <<maze, ghosts, queryVars>>

\* startGame without its call of update_ai_agent.
StartLevelMutKeepAgent(level, pending, lives) ==
    Started(level, pending, lives, agent, probe.bound)

\* What startGame does to the pellets, the character and the agent at a level.
StartLevel(level, pending, lives) ==
    Started(level, pending, lives, update_ai_agent(probe.ai_mode, agent),
            bound_objects(probe.ai_mode, Objects(probe.starts + 1)))

\* game.startGame(), once, before the first update
StartGame ==
    /\ probe.op = "game"
    /\ ~probe.started
    /\ StartLevel(0, FALSE, Lives)

\* checkEvents: a click on one of the four buttons, set_ai_mode(mode)
SetAIMode ==
    /\ probe.op = "game"
    /\ probe.started
    /\ \E mode \in AIModes :
          LET old_mode == probe.ai_mode
              pg == IF mode = AI_DFS /\ old_mode # AI_DFS
                    THEN reduce_to_one_pellet(ThePellets)
                    ELSE IF old_mode = AI_DFS /\ mode # AI_DFS
                    THEN restore_original_pellets(ThePellets)
                    ELSE ThePellets
              controller == [probe EXCEPT !.ai_mode = mode,
                                          !.bound = bound_objects(mode, probe.objects),
                                          !.ai_controlled = (mode # AI_NONE)]
          IN  /\ pelletList' = pg.pelletList
              /\ result' = [result EXCEPT !.group = pg]
              /\ probe' = IF mode = AI_DFS /\ old_mode # AI_DFS
                           THEN Reduced(controller, pelletList, pg)
                           ELSE controller
              /\ agent' = update_ai_agent(mode, agent)
    /\ UNCHANGED <<maze, ghosts, pacman, queryVars>>

\* checkPelletEvents, when the character touches a pellet.  The game is
\* paused while nextLevel is pending, and nothing is eaten then.
EatPellet ==
    /\ probe.op = "game"
    /\ probe.started
    /\ ~probe.pending
    /\ result.group.numEaten < MaxEaten
    /\ \E i \in 1..Len(pelletList) :
          LET rest == SubSeq(pelletList, 1, i - 1) \o SubSeq(pelletList, i + 1, Len(pelletList))
          IN  /\ pelletList' = rest
              /\ result' = [result EXCEPT !.group.numEaten = @ + 1, !.group.pelletList = rest]
              /\ probe' = [probe EXCEPT !.pending = (rest = <<>>)]
    /\ UNCHANGED <<maze, ghosts, pacman, agent, queryVars>>

\* nextLevel, when the pause set by checkPelletEvents is over
NextLevel ==
    /\ probe.op = "game"
    /\ probe.pending
    /\ probe.level < MaxLevel
    /\ StartLevel(probe.level + 1, FALSE, probe.lives)

\* restartGame, after the last life was lost
RestartGame ==
    /\ probe.op = "game"
    /\ probe.started
    /\ ~probe.pending
    /\ StartLevel(0, FALSE, Lives)

\* resetLevel, after a life was lost and lives are left: the character is
\* put back on its start node.
ResetLevel ==
    /\ probe.op = "game"
    /\ probe.started
    /\ ~probe.pending
    /\ probe.lives > 1
    /\ probe' = [probe EXCEPT !.lives = @ - 1]
    /\ pacman' = AtRest(NodeAt(0, 0))
    /\ UNCHANGED <<maze, pelletList, ghosts, agent, queryVars, result>>

NextGame == StartGame \/ SetAIMode \/ EatPellet \/ NextLevel \/ RestartGame \/ ResetLevel

SpecGame == InitGame /\ [][NextGame]_vars

----------------------------------------------------------------------------
(* The single-target agent driving the character.  One tick is one         *)
(* GameController.update of a game that is not paused, with no ghosts:     *)
(* checkPelletEvents, then the direction query, then the movement of the   *)
(* character along the direction returned.  The character advances one     *)
(* tile per tick.  probe.reverses says whether the character turns round   *)
(* between two nodes when told to go the opposite way, probe.frame is the  *)
(* parity of the frames the clock of the game has counted.                 *)

Sign(x) == IF x > 0 THEN 1 ELSE IF x < 0 THEN -1 ELSE 0

\* The character one tile further from its node towards its target.
Advance(pac) ==
    <<pac.position[1] + TILEWIDTH * Sign(pac.target[1] - pac.node[1]),
      pac.position[2] + TILEWIDTH * Sign(pac.target[2] - pac.node[2])>>

\* The direction the character travels in, STOP when it stands on a node.
Heading(pac) ==
    IF pac.target = pac.node THEN STOP
    ELSE CHOOSE d \in {UP, LEFT, DOWN, RIGHT} :
             /\ Delta(d)[1] = Sign(pac.target[1] - pac.node[1])
             /\ Delta(d)[2] = Sign(pac.target[2] - pac.node[2])

\* The node the character heads for when it leaves node n in direction d:
\* the neighbour in that direction if Pacman may go there, else n itself.
getNewTarget(m, n, d) ==
    IF d # STOP /\ Neighbor(m, n, d) # None /\ PACMAN \in Access(m, n, d)
    THEN Neighbor(m, n, d)
    ELSE n

\* The movement of the character in one tick, told to go in direction d.
\* On reaching its target it turns into d if it can, else goes straight on
\* if it can, else stops.
PacmanUpdate(m, pac, d, reverses) ==
    IF Advance(pac) = pac.target
    THEN LET turned == getNewTarget(m, pac.target, d)
             straight == getNewTarget(m, pac.target, Heading(pac))
         IN  [node |-> pac.target,
              target |-> IF turned # pac.target THEN turned ELSE straight,
              position |-> pac.target]
    ELSE IF reverses /\ d # STOP /\ d = Opposite(Heading(pac))
    THEN [node |-> pac.target, target |-> pac.node, position |-> Advance(pac)]
    ELSE [pac EXCEPT !.position = Advance(pac)]

\* The nodes that can be reached from the nodes of S over permitted edges.
RECURSIVE ReachableFrom(_, _)
ReachableFrom(m, S) ==
    LET further == S \cup {getNewTarget(m, n, d) : n \in S, d \in {UP, LEFT, DOWN, RIGHT}}
    IN  IF further = S THEN S ELSE ReachableFrom(m, further)

\* The tiles of the corridor on which the character leaves node n in
\* direction d, both ends included; n alone if it cannot.
CorridorTiles(m, n, d) ==
    LET far_end == getNewTarget(m, n, d)
        tiles == (Sign(far_end[1] - n[1]) * (far_end[1] - n[1])
                    + Sign(far_end[2] - n[2]) * (far_end[2] - n[2])) \div TILEWIDTH
    IN  {<<n[1] + k * TILEWIDTH * Delta(d)[1], n[2] + k * TILEWIDTH * Delta(d)[2]>> : k \in 0..tiles}

\* The tiles the character can get to from node n: those of the permitted
\* corridors between the nodes it can reach.
TilesWithinReach(m, n) ==
    UNION {CorridorTiles(m, a, d) : a \in ReachableFrom(m, {n}), d \in {UP, LEFT, DOWN, RIGHT}}

\* pacman.eatPellets(pelletList): the index of the pellet the character is
\* on, 0 if there is none.
eatPellets(pl, pac) ==
    IF \E i \in 1..Len(pl) : pl[i].position = pac.position
    THEN CHOOSE i \in 1..Len(pl) : pl[i].position = pac.position
    ELSE 0

InitDrive ==
    /\ maze \in 1..Len(Mazes)
    /\ ghosts = <<>>
    /\ \E n \in Nodes(maze) :
          /\ pacman = AtRest(n)
          /\ \E site \in TilesWithinReach(maze, n) \ {n} :
                pelletList = <<[position |-> site, name |-> PELLET]>>
    /\ agent = create_agent(AI_DFS)
    /\ NoQuery
    /\ probe \in [op : {"drive"}, reverses : BOOLEAN, frame : {0}]
    /\ result = NoProbe

\* "while True: game.update()" and "dt = self.clock.tick(30)": the next
\* frame begins, as long as the level is on.
ClockTick ==
    /\ probe.op = "drive"
    /\ pelletList # <<>>
    /\ probe' = [probe EXCEPT !.frame = 1 - @]

\* update: checkPelletEvents; then, unless the last pellet was eaten and the
\* game paused for the next level, get_direction and pacman.update.
DriveTick ==
    /\ ClockTick
    /\ IF eatPellets(pelletList, pacman) # 0
       THEN /\ pelletList' = <<>>
            /\ UNCHANGED <<pacman, agent, queryVars>>
       ELSE LET r == get_direction(maze, pelletList, ghosts, pacman, agent)
            IN  /\ agent' = r.agent
                /\ ret' = r.ret
                /\ branch' = r.branch
                /\ planned' = r.planned
                /\ goal' = IF r.planned THEN r.target ELSE goal
                /\ cached' = agent.current_path
                /\ quietN' = 1
                /\ path0' = path0
                /\ pacman' = PacmanUpdate(maze, pacman, r.ret, probe.reverses)
                /\ pelletList' = pelletList
    /\ UNCHANGED <<maze, ghosts, result>>

NextDrive == DriveTick

\* The main loop never stops calling update.
SpecDrive == InitDrive /\ [][NextDrive]_vars /\ WF_probe(ClockTick)

----------------------------------------------------------------------------
(* Direct calls of should_replan on an agent in a drawn state              *)

\* self.current_goal: unset, or the key of a pellet position.
ReplanGoals == {None} \cup LevelPelletSites

\* self.last_node: unset, or the key of a node.
ReplanNodes == {None, NodeAt(0, 0), NodeAt(1, 0)}

InitReplan ==
    /\ maze = LevelMaze
    /\ pelletList \in LevelPelletLists
    /\ ghosts = <<>>
    /\ pacman = NoPacman
    /\ agent \in {[create_agent(k) EXCEPT !.current_path = path, !.current_goal = g,
                                          !.last_node = n] :
                      k \in {AI_ASTAR, AI_BFS, AI_DFS}, path \in CachedPaths,
                      g \in ReplanGoals, n \in ReplanNodes}
    /\ NoQuery
    /\ probe = NoProbe
    /\ result = NoProbe

\* should_replan(current_node); the probe keeps the agent as it was.
CallShouldReplan ==
    /\ probe.op = Unset
    /\ \E current_node \in {NodeAt(0, 0), NodeAt(1, 0)} :
          LET r == should_replan(pelletList, agent, current_node)
          IN  /\ probe' = [op |-> "should_replan", node |-> current_node, before |-> agent]
              /\ agent' = r.agent
              /\ result' = [op |-> "should_replan", ret |-> r.ret]
    /\ UNCHANGED <<maze, pelletList, ghosts, pacman, queryVars>>

NextReplan == CallShouldReplan

SpecReplan == InitReplan /\ [][NextReplan]_vars

----------------------------------------------------------------------------
(* Direct calls of select_safest_pellet on drawn arguments                 *)

\* Pellets near the top left corner and one seven tiles below it.
SelectPelletSites == {<<0, 0>>, TileAt(2, 0), TileAt(0, 2), TileAt(4, 0), TileAt(0, 7)}

SelectPelletLists ==
    {pl \in UNION {[1..k -> [position : SelectPelletSites, name : {PELLET}]] : k \in 0..MaxPellets} :
        \A i, j \in 1..Len(pl) : i # j => pl[i].position # pl[j].position}

\* Ghosts two tiles off the corner diagonally and nine tiles right of it.
SelectGhostLists ==
    UNION {[1..k -> [position : {TileAt(2, 2), TileAt(9, 0)}, mode : {CHASE, SPAWN}]] :
              k \in 0..MaxGhosts}

\* self.pacman.position
SelectPositions == {<<0, 0>>, TileAt(1, 0), TileAt(0, 4)}

InitSelect ==
    /\ maze = 1
    /\ pelletList \in SelectPelletLists
    /\ ghosts \in SelectGhostLists
    /\ pacman = NoPacman
    /\ agent = NoAgent
    /\ NoQuery
    /\ probe = NoProbe
    /\ result = NoProbe

\* AStarAgent.select_safest_pellet with the character at a position.
CallSelect ==
    /\ probe.op = Unset
    /\ \E position \in SelectPositions :
          /\ probe' = [op |-> "select_safest_pellet", position |-> position]
          /\ result' = [op |-> "select_safest_pellet",
                        index |-> select_safest_pellet(ghosts, pelletList, position)]
    /\ UNCHANGED <<worldVars, queryVars>>

NextSelect == CallSelect

SpecSelect == InitSelect /\ [][NextSelect]_vars

----------------------------------------------------------------------------
(* Properties of the Threat Model                                          *)

Hostile(ghost) == ghost.mode \in {SCATTER, CHASE}

\* The distance band of a squared distance: 1 within two tile-widths, 2
\* within four, ... 5 within ten, 6 beyond.
Band(dist_sq) ==
    IF dist_sq < (10 * TILEWIDTH) * (10 * TILEWIDTH)
    THEN CHOOSE k \in 1..5 :
            /\ dist_sq < (2 * k * TILEWIDTH) * (2 * k * TILEWIDTH)
            /\ k > 1 => dist_sq >= (2 * (k - 1) * TILEWIDTH) * (2 * (k - 1) * TILEWIDTH)
    ELSE 6

DangerCalled == probe.op = "get_ghost_danger"

\* C9: for a single hostile ghost, the danger of a position does not grow
\* as the squared distance to the ghost grows, and it is strictly smaller in
\* every farther band (the bands end at 2, 4, 6, 8 and 10 tile-widths; the
\* danger is zero beyond the last).
C9_ThreatMonotone ==
    (DangerCalled /\ Len(ghosts) = 1 /\ Hostile(ghosts[1])) =>
        LET dp == magnitudeSquared(ghosts[1].position, probe.p)
            dq == magnitudeSquared(ghosts[1].position, probe.q)
        IN  /\ dp <= dq => result.p >= result.q
            /\ Band(dp) < Band(dq) => result.p > result.q
            /\ Band(dp) = 6 => result.p = 0

C9_Witness ==
    /\ DangerCalled
    /\ Len(ghosts) = 1
    /\ Hostile(ghosts[1])
    /\ Band(magnitudeSquared(ghosts[1].position, probe.p)) = 2
    /\ Band(magnitudeSquared(ghosts[1].position, probe.q)) = 3
    /\ result.p > result.q
    /\ result.q > 0

NotSpawn(ghost) == ghost.mode # SPAWN

\* C10: ghosts in SPAWN mode add nothing to the danger of any position: the
\* danger equals the danger under the same ghosts with the SPAWN ones left
\* out, and it is zero when every ghost is in SPAWN mode.
C10_SpawnIsInert ==
    DangerCalled =>
        /\ result.p = get_ghost_danger(SelectSeq(ghosts, NotSpawn), probe.p)
        /\ (\A i \in 1..Len(ghosts) : ghosts[i].mode = SPAWN) => result.p = 0

C10_Witness ==
    /\ DangerCalled
    /\ Len(ghosts) = 2
    /\ ghosts[1].mode = SPAWN
    /\ Band(magnitudeSquared(ghosts[1].position, probe.p)) = 1
    /\ ghosts[2].mode = CHASE
    /\ Band(magnitudeSquared(ghosts[2].position, probe.p)) = 3
    /\ result.p = 10000

\* The ghosts gs without the i-th
WithoutGhost(gs, i) == SubSeq(gs, 1, i - 1) \o SubSeq(gs, i + 1, Len(gs))

\* C11 (as stated): a frightened ghost close to a position (within two
\* tile-widths, so inside any moderate radius) makes the danger of the
\* position lower than it is under the other ghosts alone.
C11_FrightenedIncentive ==
    DangerCalled =>
        \A i \in 1..Len(ghosts) :
            (/\ ghosts[i].mode = FREIGHT
             /\ Band(magnitudeSquared(ghosts[i].position, probe.p)) = 1)
                => result.p < get_ghost_danger(WithoutGhost(ghosts, i), probe.p)

\* The cost of each distance band, nearest first, and of the distance beyond
TierCost == <<100000, 50000, 10000, 1000, 100, 0>>

\* C12 (as stated): for one hostile ghost, the danger in each of the five
\* bands is ten times the danger in the next farther band.
C12_TiersFactorTen ==
    (DangerCalled /\ Len(ghosts) = 1 /\ Hostile(ghosts[1])) =>
        LET bp == Band(magnitudeSquared(ghosts[1].position, probe.p))
            bq == Band(magnitudeSquared(ghosts[1].position, probe.q))
        IN  (bq = bp + 1 /\ bq <= 5) => result.p = 10 * result.q

\* C12 (amended): for one hostile ghost the danger is 100000, 50000, 10000,
\* 1000, 100 in the bands ending at 2, 4, 6, 8, 10 tile-widths and 0 beyond;
\* each band costs at least twice the next farther one, and ten times from
\* the third band on.
C12_TiersAsCoded ==
    (DangerCalled /\ Len(ghosts) = 1 /\ Hostile(ghosts[1])) =>
        LET bp == Band(magnitudeSquared(ghosts[1].position, probe.p))
            bq == Band(magnitudeSquared(ghosts[1].position, probe.q))
        IN  /\ result.p = TierCost[bp]
            /\ bp <= 5 => result.p > 0
            /\ (bq = bp + 1 /\ bq <= 5) => result.p >= 2 * result.q
            /\ (bq = bp + 1 /\ bq <= 5 /\ bp >= 3) => result.p = 10 * result.q

\* C12 witness: a position in the nearest band and one in the second, where
\* the factor is two.
C12_Witness ==
    /\ DangerCalled
    /\ Len(ghosts) = 1
    /\ Hostile(ghosts[1])
    /\ Band(magnitudeSquared(ghosts[1].position, probe.p)) = 1
    /\ Band(magnitudeSquared(ghosts[1].position, probe.q)) = 2
    /\ result.p = 2 * result.q
    /\ result.q = 50000

----------------------------------------------------------------------------
(* Properties of the search routines                                       *)

\* An edge Pacman may use: the node has a neighbour in the direction and
\* the access list of that direction names PACMAN.
Permitted(m, n, d) ==
    /\ d \in {UP, LEFT, DOWN, RIGHT}
    /\ <<n, d>> \in Mazes[m].links
    /\ <<n, d>> \notin Mazes[m].denied
    /\ <<n, d>> \notin Mazes[m].unlisted

\* The node reached by following path from n over permitted edges; None if
\* some step is not a permitted edge.
RECURSIVE Follow(_, _, _)
Follow(m, n, path) ==
    IF path = <<>> THEN n
    ELSE IF ~Permitted(m, n, Head(path)) THEN None
    ELSE Follow(m, Neighbor(m, n, Head(path)), Tail(path))

\* The nodes within the goal threshold of some pellet.
GoalNodes(m, pl) ==
    {n \in Nodes(m) : \E i \in 1..Len(pl) : is_at_goal(n, pl[i].position)}

Successors(m, S) ==
    {Neighbor(m, e[1], e[2]) : e \in {e \in S \X {UP, LEFT, DOWN, RIGHT} : Permitted(m, e[1], e[2])}}

\* The least number of permitted edges from a node of S to a node of G,
\* counted from k; -1 if no node of G can be reached.
RECURSIVE HopsFrom(_, _, _, _)
HopsFrom(m, S, G, k) ==
    IF S \cap G # {} THEN k
    ELSE IF Successors(m, S) \subseteq S THEN -1
    ELSE HopsFrom(m, S \cup Successors(m, S), G, k + 1)

HopDistance(m, start, G) == HopsFrom(m, {start}, G, 0)

NearestCalled == probe.op = "find_path_to_nearest_pellet"

\* C3 as stated: whenever a pellet can be reached, the path of
\* find_path_to_nearest_pellet has as many directions as there are edges on
\* a shortest route from the start node to the nearest node within the goal
\* threshold of a pellet.
C3_AsStated ==
    (NearestCalled /\ HopDistance(maze, probe.start, GoalNodes(maze, pelletList)) >= 0) =>
        Len(result.path) = HopDistance(maze, probe.start, GoalNodes(maze, pelletList))

\* C3, amended: the start node itself is never tested.  The path has as
\* many directions as there are edges on a shortest route from the start
\* node to the nearest OTHER node within the goal threshold of a pellet, and
\* it is empty when no such node can be reached.
C3_NearestOtherNode ==
    NearestCalled =>
        LET others == GoalNodes(maze, pelletList) \ {probe.start}
            hops == HopDistance(maze, probe.start, others)
        IN  IF hops >= 0 THEN Len(result.path) = hops ELSE result.path = <<>>

\* The corner-to-corner example: four directions on the open 3x3 grid.
C3_Witness ==
    /\ NearestCalled
    /\ maze = 1
    /\ probe.start = NodeAt(0, 0)
    /\ Len(pelletList) = 1
    /\ pelletList[1].position = TileAt(4, 4)
    /\ Len(result.path) = 4

\* C4: a non-empty path returned by a search routine follows permitted
\* edges from the start node and ends on a node within the goal threshold
\* of the target (find_path), of some pellet (find_path_to_nearest_pellet),
\* of the first pellet (find_shortest_path_to_pellet).
C4_PathValid ==
    (probe.op \in {"find_path", "find_path_to_nearest_pellet",
                   "find_shortest_path_to_pellet"} /\ result.path # <<>>) =>
        LET end == Follow(maze, probe.start, result.path)
        IN  /\ end # None
            /\ probe.op = "find_path" => is_at_goal(end, probe.target)
            /\ probe.op = "find_path_to_nearest_pellet" => end \in GoalNodes(maze, pelletList)
            /\ probe.op = "find_shortest_path_to_pellet" =>
                   is_at_goal(end, pelletList[1].position)

\* find_path around a ghost: a path of four directions or more whose
\* directions are not all the same.
C4_Witness ==
    /\ probe.op = "find_path"
    /\ ghosts # <<>>
    /\ Len(result.path) >= 4
    /\ \E i \in 1..Len(result.path) : result.path[i] # result.path[1]
    /\ is_at_goal(Follow(maze, probe.start, result.path), probe.target)

----------------------------------------------------------------------------
NeighborsCalled == probe.op = "get_neighbors"

\* The place of a direction in the order UP, LEFT, DOWN, RIGHT.
Rank(d) == CASE d = UP -> 1 [] d = LEFT -> 2 [] d = DOWN -> 3 [] d = RIGHT -> 4

\* C22: get_neighbors returns a pair for exactly the directions in which
\* the node has a neighbour and Pacman is permitted, each with the node at
\* the other end of that corridor, in the order UP, LEFT, DOWN, RIGHT; the
\* other directions are left out.
C22_Neighbors ==
    NeighborsCalled =>
        LET pairs == result.pairs
            n == probe.start
        IN  /\ \A i \in 1..Len(pairs) :
                  /\ Permitted(maze, n, pairs[i][2])
                  /\ pairs[i][1] = Neighbor(maze, n, pairs[i][2])
                  /\ pairs[i][1] \in Nodes(maze)
            /\ \A d \in {UP, LEFT, DOWN, RIGHT} :
                  Permitted(maze, n, d) => \E i \in 1..Len(pairs) : pairs[i][2] = d
            /\ \A i, j \in 1..Len(pairs) : i < j => Rank(pairs[i][2]) < Rank(pairs[j][2])

\* A node with a corridor Pacman may not enter and a direction without a
\* corridor: only the other corridor is listed.
C22_Witness ==
    /\ NeighborsCalled
    /\ \E d \in {UP, LEFT, DOWN, RIGHT} : <<probe.start, d>> \in Mazes[maze].denied
    /\ \E d \in {UP, LEFT, DOWN, RIGHT} : <<probe.start, d>> \notin Mazes[maze].links
    /\ Len(result.pairs) = 1

\* A corridor whose direction has no entry in the access table is left out.
C22_WitnessUnlisted ==
    /\ NeighborsCalled
    /\ \E d \in {UP, LEFT, DOWN, RIGHT} :
          /\ <<probe.start, d>> \in Mazes[maze].links \cap Mazes[maze].unlisted
          /\ \A i \in 1..Len(result.pairs) : result.pairs[i][2] # d
    /\ Len(result.pairs) = 1

\* All four directions listed, in order.
C22_WitnessFour ==
    /\ NeighborsCalled
    /\ Len(result.pairs) = 4
    /\ result.pairs[1][2] = UP /\ result.pairs[2][2] = LEFT
    /\ result.pairs[3][2] = DOWN /\ result.pairs[4][2] = RIGHT

\* A node with no corridor at all: the empty sequence.
C22_WitnessNone ==
    /\ NeighborsCalled
    /\ result.pairs = <<>>

FindPathCalled == probe.op = "find_path"

\* The nodes within the goal threshold of a target position.
TargetNodes(m, target_position) == {n \in Nodes(m) : is_at_goal(n, target_position)}

\* No ghost of the collection adds danger to any node of the maze: every
\* edge costs the movement cost alone.
Unweighted(m, gs) == \A n \in Nodes(m) : get_ghost_danger(gs, n) = 0

\* C21, first half: with no ghost adding danger, the heuristic of a node
\* never exceeds the cost of the cheapest route from it to a node within the
\* goal threshold of the target, TILEWIDTH for each edge.
C21_Admissible ==
    (FindPathCalled /\ Unweighted(maze, ghosts)) =>
        \A n \in Nodes(maze) :
            LET hops == HopDistance(maze, n, TargetNodes(maze, probe.target))
            IN  hops >= 0 => heuristic(n, probe.target) <= TILEWIDTH * hops

\* C21, second half: with no ghost adding danger, the path of find_path
\* has as many directions as the shortest route to a node within the goal
\* threshold of the target has edges.
C21_FewestEdges ==
    (FindPathCalled /\ Unweighted(maze, ghosts)) =>
        LET hops == HopDistance(maze, probe.start, TargetNodes(maze, probe.target))
        IN  hops >= 0 => Len(result.path) = hops

\* find_path was called and went into its loop.
FindPathRan == FindPathCalled /\ result.run # None

\* The directed corridors of a maze that Pacman may use.
PermittedEdges(m) ==
    {e \in Nodes(m) \X {UP, LEFT, DOWN, RIGHT} : Permitted(m, e[1], e[2])}

\* C24: find_path ends after at most one pass of its loop for the start
\* node and one for every permitted corridor; no key is expanded twice; no
\* node expanded before the last satisfies the goal test, and if the last
\* one does, it is the node the path is built for (otherwise there is none).
C24_ExpandOnce ==
    FindPathRan =>
        LET expanded == result.run.expanded
            last == Len(expanded)
        IN  /\ result.run.pops <= 1 + Cardinality(PermittedEdges(maze))
            /\ \A i, j \in 1..last : i # j => expanded[i] # expanded[j]
            /\ \A i \in 1..(last - 1) : ~is_at_goal(expanded[i], probe.target)
            /\ last >= 1
            /\ IF is_at_goal(expanded[last], probe.target)
               THEN result.run.goal = expanded[last]
               ELSE result.run.goal = None /\ result.path = <<>>

\* A run that takes a node from the open set a second time, after a cheaper
\* route to it was found, and skips it: more passes than expansions.
C24_Witness ==
    /\ FindPathRan
    /\ result.run.pops > Len(result.run.expanded)
    /\ Len(result.run.expanded) >= 5

\* A run among ghosts that ends on the first goal node taken from the open
\* set, after expanding four other nodes.
C24_WitnessGoal ==
    /\ FindPathRan
    /\ ghosts # <<>>
    /\ result.run.goal # None
    /\ Len(result.run.expanded) >= 5
    /\ result.run.expanded[Len(result.run.expanded)] = result.run.goal

\* C25: find_path returns the empty path exactly when there is no start
\* node, when the start node is within the goal threshold of the target,
\* or when no node within the threshold can be reached from the start node
\* over permitted corridors.
C25_EmptyExactly ==
    FindPathCalled =>
        (result.path = <<>> <=>
            \/ probe.start = None
            \/ is_at_goal(probe.start, probe.target)
            \/ HopDistance(maze, probe.start, TargetNodes(maze, probe.target)) = -1)

\* A path found although the start node lies in the nearest danger tier of
\* a ghost and the goal node is two corridors or more away.
C25_Witness ==
    /\ FindPathCalled
    /\ probe.start # None
    /\ get_ghost_danger(ghosts, probe.start) >= 100000
    /\ HopDistance(maze, probe.start, TargetNodes(maze, probe.target)) >= 2
    /\ result.path # <<>>

\* The three empty cases of C25.
C25_WitnessNoStart ==
    /\ FindPathCalled
    /\ probe.start = None
    /\ result.path = <<>>

C25_WitnessAtGoal ==
    /\ FindPathCalled
    /\ probe.start # None
    /\ is_at_goal(probe.start, probe.target)
    /\ result.path = <<>>

C25_WitnessUnreachable ==
    /\ FindPathCalled
    /\ probe.start # None
    /\ HopDistance(maze, probe.start, TargetNodes(maze, probe.target)) = -1
    /\ result.path = <<>>

ReconstructCalled == probe.op = "reconstruct_path"

\* The keys met when following the predecessors of a map from a key back
\* to start_key, that key first; ok says that start_key was reached and no
\* key was met twice.
RECURSIVE ChainBack(_, _, _, _)
ChainBack(came_from, start_key, current, keys) ==
    IF current = start_key THEN [ok |-> TRUE, keys |-> keys]
    ELSE IF current \notin DOMAIN came_from \/ \E i \in 1..Len(keys) : keys[i] = current
    THEN [ok |-> FALSE, keys |-> keys]
    ELSE ChainBack(came_from, start_key, came_from[current][1], Append(keys, current))

\* path lists, from start to goal, the directions by which the keys of the
\* chain were entered, and following it from start_key ends on goal_key.
ChainOf(m, came_from, start_key, goal_key, path) ==
    LET chain == ChainBack(came_from, start_key, goal_key, <<>>)
        n == Len(chain.keys)
    IN  /\ chain.ok
        /\ Len(path) = n
        /\ \A i \in 1..n : path[i] = came_from[chain.keys[n + 1 - i]][2]
        /\ Follow(m, start_key, path) = goal_key

\* C26: reconstruct_path returns the empty path when goal_key is start_key;
\* otherwise, when the predecessors of goal_key lead to start_key, the
\* directions of that chain from start to goal, which lead from the start
\* node to the goal node.  In find_path the chain from the accepted goal
\* node reaches the start key without meeting a key twice, and the path
\* returned is the path of that chain.
C26_Reconstruct ==
    /\ ReconstructCalled =>
          IF probe.goal = probe.start THEN result.path = <<>>
          ELSE ChainBack(probe.came_from, probe.start, probe.goal, <<>>).ok =>
                   ChainOf(maze, probe.came_from, probe.start, probe.goal, result.path)
    /\ (FindPathRan /\ result.run.goal # None) =>
          ChainOf(maze, result.run.came_from, probe.start, result.run.goal, result.path)

\* A direct call whose start key lies half-way along the chain of the map:
\* three directions, not all the same, from the start node to the goal node.
C26_Witness ==
    /\ ReconstructCalled
    /\ probe.start \in DOMAIN probe.came_from
    /\ Len(result.path) = 3
    /\ \E i \in 1..3 : result.path[i] # result.path[1]
    /\ Follow(maze, probe.start, result.path) = probe.goal

\* A direct call with the goal key equal to a start key that has a
\* predecessor in the map.
C26_WitnessSameKey ==
    /\ ReconstructCalled
    /\ probe.goal = probe.start
    /\ probe.start \in DOMAIN probe.came_from
    /\ result.path = <<>>

\* A find_path among ghosts whose chain has four keys.
C26_WitnessFindPath ==
    /\ FindPathRan
    /\ ghosts # <<>>
    /\ result.run.goal # None
    /\ Len(ChainBack(result.run.came_from, probe.start, result.run.goal, <<>>).keys) = 4

ShortestCalled == probe.op = "find_shortest_path_to_pellet"

\* The nodes within the goal threshold of the first pellet of a list.
FirstPelletNodes(m, pl) == {n \in Nodes(m) : is_at_goal(n, pl[1].position)}

\* C19: find_shortest_path_to_pellet returns the empty path when the pellet
\* list is empty, when the start node is within the goal threshold of the
\* first pellet, and when no node within that threshold can be reached;
\* otherwise its path follows permitted edges from the start node to a node
\* within the threshold of the first pellet and has as many directions as
\* the shortest such route has edges.
C19_SingleTarget ==
    ShortestCalled =>
        IF pelletList = <<>> THEN result.path = <<>>
        ELSE LET G == FirstPelletNodes(maze, pelletList)
                 hops == HopDistance(maze, probe.start, G)
             IN  IF hops <= 0 THEN result.path = <<>>
                 ELSE /\ Len(result.path) = hops
                      /\ Follow(maze, probe.start, result.path) \in G

\* A call with two pellets where the second is nearer than the first: the
\* path goes to the first, two edges or more away, past a start node that
\* has the second pellet within one edge.
C19_Witness ==
    /\ ShortestCalled
    /\ Len(pelletList) = 2
    /\ Len(result.path) >= 2
    /\ Follow(maze, probe.start, result.path) \in FirstPelletNodes(maze, pelletList)
    /\ HopDistance(maze, probe.start,
                   {n \in Nodes(maze) : is_at_goal(n, pelletList[2].position)}) = 1

\* The three empty cases of C19 all happen: no pellets, start at the goal,
\* first pellet out of reach.
C19_WitnessAtGoal ==
    /\ ShortestCalled
    /\ pelletList # <<>>
    /\ probe.start \in FirstPelletNodes(maze, pelletList)
    /\ result.path = <<>>

C19_WitnessUnreachable ==
    /\ ShortestCalled
    /\ pelletList # <<>>
    /\ HopDistance(maze, probe.start, FirstPelletNodes(maze, pelletList)) = -1
    /\ result.path = <<>>

----------------------------------------------------------------------------
(* Properties of get_direction under the host loop.  quietN >= 1 says that *)
(* the world is still as the last get_direction call saw it.               *)

EffectiveNode == get_current_node(pacman)

PermittedDirections(m, n) == {d \in {UP, LEFT, DOWN, RIGHT} : Permitted(m, n, d)}

\* The directions of the permitted neighbours that no other permitted
\* neighbour beats in danger.
SafestDirections(m, gs, n) ==
    {d \in PermittedDirections(m, n) :
        \A e \in PermittedDirections(m, n) :
            get_ghost_danger(gs, Step(n, d)) <= get_ghost_danger(gs, Step(n, e))}

\* C1 (as stated): with graph, pellets, ghosts and character unchanged, a
\* get_direction call that immediately follows another returns the same
\* direction as that one.
C1_Deterministic ==
    [][(quietN >= 1 /\ quietN' = quietN + 1) => ret' = ret]_vars

\* C2 (as stated): however many get_direction calls are made while the
\* character does not move, current_path stays what the first of them left,
\* or that with at most its front direction consumed.
C2_ReplanIdempotent ==
    quietN >= 1 =>
        \/ agent.current_path = path0
        \/ path0 # <<>> /\ agent.current_path = Tail(path0)

\* C5: when the greedy-score (BFS) agent is queried with an empty pellet
\* list while it holds a non-empty cached path, the call returns STOP and
\* takes nothing from the cached path.
C5_StopWhenPelletsGone ==
    (agent.kind = AI_BFS /\ quietN >= 1 /\ pelletList = <<>> /\ cached # <<>>)
        => (ret = STOP /\ agent.current_path = cached)

\* C5 witness: a BFS agent that planned a path, lost every pellet and was
\* queried again.
C5_Witness ==
    /\ agent.kind = AI_BFS
    /\ quietN >= 1
    /\ pelletList = <<>>
    /\ cached # <<>>
    /\ ret = STOP

\* C6: whenever the survival (A*) agent is queried while the danger at the
\* character's position is 10000 or more and the effective node has a
\* permitted neighbour, it returns the direction of a permitted neighbour of
\* minimum danger, and leaves current_path empty and last_position cleared.
C6_DangerOverride ==
    (/\ agent.kind = AI_ASTAR
     /\ quietN >= 1
     /\ get_ghost_danger(ghosts, pacman.position) >= 10000
     /\ PermittedDirections(maze, EffectiveNode) # {})
        => (/\ ret \in SafestDirections(maze, ghosts, EffectiveNode)
            /\ agent.current_path = <<>>
            /\ agent.last_position = None)

\* C6 witness: the override fired between two nodes, against a cached path
\* whose next direction was another one.
C6_Witness ==
    /\ agent.kind = AI_ASTAR
    /\ quietN >= 1
    /\ get_ghost_danger(ghosts, pacman.position) >= 10000
    /\ pacman.position # EffectiveNode
    /\ cached # <<>>
    /\ ret \in PermittedDirections(maze, EffectiveNode) \ {Head(cached)}
    /\ agent.current_path = <<>>

\* C7: the A* agent never returns a direction off its path whose neighbour
\* has danger 10000 or more: a direction it returns leads to a neighbour of
\* danger below 10000 or is a minimum-danger direction, and when the path's
\* direction is rejected current_path is left empty.
C7_DefensiveRecheck ==
    (agent.kind = AI_ASTAR /\ quietN >= 1) =>
        LET neighbor == Neighbor(maze, EffectiveNode, ret)
            safest == SafestDirections(maze, ghosts, EffectiveNode)
        IN  /\ (neighbor # None /\ get_ghost_danger(ghosts, neighbor) >= 10000)
                   => ret \in safest
            /\ branch = "path"
                   => (neighbor = None \/ get_ghost_danger(ghosts, neighbor) < 10000)
            /\ branch = "recheck"
                   => /\ agent.current_path = <<>>
                      /\ ret \in safest \/ (safest = {} /\ ret = STOP)

\* C7 witness: the path just searched starts toward a neighbour of danger
\* 10000 or more, and the agent returned another, less dangerous direction.
C7_Witness ==
    /\ agent.kind = AI_ASTAR
    /\ quietN >= 1
    /\ planned
    /\ goal # None
    /\ branch = "recheck"
    /\ LET path == find_path(maze, ghosts, EffectiveNode, goal)
       IN  /\ path # <<>>
           /\ ret # Head(path)
           /\ get_ghost_danger(ghosts, Step(EffectiveNode, ret))
                  < get_ghost_danger(ghosts, Step(EffectiveNode, Head(path)))

\* C8 (as stated): a get_direction call made while the pellet the cached
\* path was searched for is no longer in the pellet list searches a new path
\* or at least returns nothing off the cached one.
C8_StaleGoalReplans ==
    [][(/\ quietN' = quietN + 1
        /\ agent.current_path # <<>>
        /\ goal # None
        /\ \A i \in 1..Len(pelletList) : pelletList[i].position # goal)
            => (planned' \/ branch' # "path")]_vars

\* The permitted neighbours of n are all equally dangerous.
EquallyDangerous(m, gs, n) ==
    \A d, e \in PermittedDirections(m, n) :
        get_ghost_danger(gs, Step(n, d)) = get_ghost_danger(gs, Step(n, e))

\* C13: the A* agent returns STOP when the effective node has no permitted
\* neighbour, and the direction of a permitted edge of the effective node
\* when its permitted neighbours are all equally dangerous.
C13_DegenerateSafety ==
    (agent.kind = AI_ASTAR /\ quietN >= 1) =>
        /\ PermittedDirections(maze, EffectiveNode) = {} => ret = STOP
        /\ (/\ PermittedDirections(maze, EffectiveNode) # {}
            /\ EquallyDangerous(maze, ghosts, EffectiveNode))
               => ret \in PermittedDirections(maze, EffectiveNode)

\* The first direction of DIRECTION_ORDER that is a permitted edge of n,
\* STOP if there is none.
FirstPermitted(m, n) ==
    LET at == {i \in 1..Len(DIRECTION_ORDER) : Permitted(m, n, DIRECTION_ORDER[i])}
    IN  IF at = {} THEN STOP
        ELSE DIRECTION_ORDER[CHOOSE i \in at : \A j \in at : i <= j]

\* The nodes the last search of the agent was looking for: those within the
\* goal threshold of its target pellet, of any pellet for the BFS agent.
Sought ==
    IF agent.kind = AI_BFS THEN GoalNodes(maze, pelletList)
    ELSE {n \in Nodes(maze) : is_at_goal(n, goal)}

\* The last get_direction call ran its search and no node it was looking
\* for can be reached from the effective node over permitted edges.
SearchedInVain ==
    /\ quietN >= 1
    /\ planned
    /\ HopDistance(maze, EffectiveNode, Sought) = -1

\* C14: when a get_direction call runs its search and no goal node can be
\* reached from the effective node, the search yields the empty path and the
\* call falls back: to a minimum-danger permitted neighbour for the A* agent,
\* to the first permitted neighbour in DIRECTION_ORDER for the BFS and DFS
\* agents, to STOP when the effective node has no permitted neighbour.
C14_UnreachableGoal ==
    SearchedInVain =>
        /\ agent.current_path = <<>>
        /\ branch \in {"fallback", "stop"}
        /\ PermittedDirections(maze, EffectiveNode) = {} => ret = STOP
        /\ (agent.kind = AI_ASTAR /\ PermittedDirections(maze, EffectiveNode) # {})
               => ret \in SafestDirections(maze, ghosts, EffectiveNode)
        /\ agent.kind \in {AI_BFS, AI_DFS} => ret = FirstPermitted(maze, EffectiveNode)

\* C14 witness: the A* agent, its only pellets out of reach, falls back to
\* the less dangerous of two permitted neighbours.
C14_Witness ==
    /\ SearchedInVain
    /\ agent.kind = AI_ASTAR
    /\ pelletList # <<>>
    /\ ret \in SafestDirections(maze, ghosts, EffectiveNode)
    /\ \E d \in PermittedDirections(maze, EffectiveNode) :
           get_ghost_danger(ghosts, Step(EffectiveNode, d))
               > get_ghost_danger(ghosts, Step(EffectiveNode, ret))

\* C15: for a character with neither a node nor a target, get_direction of
\* every agent returns STOP and leaves current_path as it found it.
C15_MissingNode ==
    (quietN >= 1 /\ pacman.node = None /\ pacman.target = None) =>
        (ret = STOP /\ agent.current_path = cached)

\* C15 witness: a BFS agent with pellets at hand and a cached path of two
\* directions, asked on behalf of such a character.
C15_Witness ==
    /\ quietN >= 1
    /\ pacman.node = None
    /\ pacman.target = None
    /\ agent.kind = AI_BFS
    /\ pelletList # <<>>
    /\ Len(cached) = 2
    /\ agent.current_path = cached
    /\ ret = STOP

\* C17: a get_direction call returns one of UP, DOWN, LEFT, RIGHT, STOP and
\* changes nothing but the cache of the agent queried: the graph, the pellet
\* list, the ghosts and the character's node, target and position stay as
\* they were, and the agent remains of the same strategy.
C17_Frame ==
    [][quietN' = quietN + 1 =>
        /\ ret' \in {UP, DOWN, LEFT, RIGHT, STOP}
        /\ maze' = maze
        /\ pelletList' = pelletList
        /\ ghosts' = ghosts
        /\ pacman' = pacman
        /\ agent'.kind = agent.kind]_vars

\* C17 witness: a call that did change the cache, with pellets and a hostile
\* ghost around.
C17_Witness ==
    /\ quietN >= 1
    /\ ret \in {UP, DOWN, LEFT, RIGHT}
    /\ agent.current_path # cached
    /\ agent.last_position # None
    /\ pelletList # <<>>
    /\ ghosts[1].mode = CHASE

\* C18: two runs of the BFS agent that see the same graph, pellets and
\* character but different ghosts return the same direction at every query
\* and hold the same cache after it.
C18_GhostsIgnored ==
    (probe.op = "twin" /\ quietN >= 1) =>
        (ret = result.ret /\ agent = result.agent)

\* C18 witness: one run with a hunting ghost next to the character's way,
\* the other with the ghost on its way home, and the same path in both.
C18_Witness ==
    /\ probe.op = "twin"
    /\ quietN >= 1
    /\ ghosts[1].mode = CHASE
    /\ result.ghosts[1].mode = SPAWN
    /\ get_ghost_danger(ghosts, pacman.position) >= 10000
    /\ ret = result.ret
    /\ ret # STOP
    /\ agent.current_path # <<>>
    /\ agent = result.agent

\* C27: a get_direction call of the A* agent made while the pellet list is
\* empty returns the direction of a permitted neighbour of the effective
\* node that no other permitted neighbour beats in danger, STOP if there is
\* no permitted neighbour, and takes nothing off the cached path.
C27_NoPelletsSurvival ==
    (quietN >= 1 /\ agent.kind = AI_ASTAR /\ pelletList = <<>>) =>
        /\ branch # "path"
        /\ IF PermittedDirections(maze, EffectiveNode) = {}
           THEN ret = STOP
           ELSE ret \in SafestDirections(maze, ghosts, EffectiveNode)

----------------------------------------------------------------------------
(* Properties of the Replan Controller                                     *)

ReplanCalled == probe.op = "should_replan"

\* The call was made with a path to follow and a goal that is unset or
\* still the position of a pellet.
NodeTransitionCase ==
    /\ ReplanCalled
    /\ probe.before.current_path # <<>>
    /\ \/ probe.before.current_goal = None
       \/ \E i \in 1..Len(pelletList) :
             pelletList[i].position = probe.before.current_goal

\* C23: in the node-transition case, (a) if the key of the node differs
\* from last_node, last_node becomes that key, the front direction is gone
\* from current_path, and the call reports replan exactly when the path is
\* now empty; (b) if the key equals last_node, the call reports no replan
\* and the agent is as it was.
C23_NodeTransition ==
    NodeTransitionCase =>
        IF probe.node # probe.before.last_node
        THEN /\ agent.last_node = probe.node
             /\ agent.current_path = Tail(probe.before.current_path)
             /\ agent.current_goal = probe.before.current_goal
             /\ result.ret <=> agent.current_path = <<>>
        ELSE /\ result.ret = FALSE
             /\ agent = probe.before

\* (a) with directions left: a new node, the front direction consumed, two
\* directions remaining, no replan.
C23_Witness ==
    /\ NodeTransitionCase
    /\ probe.before.last_node # None
    /\ probe.node # probe.before.last_node
    /\ probe.before.current_goal # None
    /\ Len(probe.before.current_path) = 3
    /\ Len(agent.current_path) = 2
    /\ result.ret = FALSE

\* (a) with the last direction consumed: replan reported.
C23_WitnessExhausted ==
    /\ NodeTransitionCase
    /\ probe.node # probe.before.last_node
    /\ Len(probe.before.current_path) = 1
    /\ agent.current_path = <<>>
    /\ result.ret = TRUE

\* (b): the same node as at the last call.
C23_WitnessSameNode ==
    /\ NodeTransitionCase
    /\ probe.node = probe.before.last_node
    /\ result.ret = FALSE

----------------------------------------------------------------------------
(* Properties of the Goal Selector                                         *)

SelectCalled == probe.op = "select_safest_pellet"

\* A hundred times the combined score of pellet i in the call made:
\* 100 * (danger at the pellet + 0.01 * squared distance to the character).
Score100(i) ==
    100 * get_ghost_danger(ghosts, pelletList[i].position)
        + magnitudeSquared(pelletList[i].position, probe.position)

\* C20: select_safest_pellet returns None exactly when the pellet list is
\* empty; otherwise the pellet returned has the least combined score of
\* all, and every pellet before it in the list has a greater score.
C20_SafestPellet ==
    SelectCalled =>
        /\ result.index = 0 <=> pelletList = <<>>
        /\ pelletList # <<>> =>
              /\ result.index \in 1..Len(pelletList)
              /\ \A j \in 1..Len(pelletList) : Score100(result.index) <= Score100(j)
              /\ \A j \in 1..(result.index - 1) : Score100(result.index) < Score100(j)

\* The two terms trade off: the pellet returned lies in more danger than
\* another pellet that is further from the character.
C20_Witness ==
    /\ SelectCalled
    /\ result.index # 0
    /\ \E j \in 1..Len(pelletList) :
          /\ get_ghost_danger(ghosts, pelletList[j].position)
                < get_ghost_danger(ghosts, pelletList[result.index].position)
          /\ Score100(result.index) < Score100(j)

\* Two pellets in equal, non-zero danger and equally far: the first is returned.
C20_WitnessTie ==
    /\ SelectCalled
    /\ Len(pelletList) = 2
    /\ Score100(1) = Score100(2)
    /\ get_ghost_danger(ghosts, pelletList[1].position) > 0
    /\ result.index = 1

\* Danger decides against distance: the pellet returned is further from the
\* character than another pellet that lies in more danger.
C20_WitnessFurther ==
    /\ SelectCalled
    /\ result.index # 0
    /\ \E j \in 1..Len(pelletList) :
          magnitudeSquared(pelletList[j].position, probe.position)
              < magnitudeSquared(pelletList[result.index].position, probe.position)

----------------------------------------------------------------------------
(* Properties of the directions returned over the ticks                    *)

\* C30: whatever the strategy, and however the character was moved and the
\* pellets removed between the queries, the direction the last get_direction
\* call returned is STOP or the direction of an edge of the effective node
\* that Pacman is permitted to traverse.
C30_ReturnedPermitted ==
    (quietN >= 1 /\ agent.kind \in {AI_ASTAR, AI_BFS, AI_DFS}) =>
        ret \in {STOP} \cup PermittedDirections(maze, EffectiveNode)

----------------------------------------------------------------------------
(* Properties of the single-target mode                                    *)

GameStarted == probe.op = "game" /\ probe.started

\* The first regular pellet of a list or, if it has none, its first pellet.
FirstRegularOrFirst(pl) ==
    LET regular == SelectSeq(pl, LAMBDA pellet : pellet.name = PELLET)
    IN  IF regular # <<>> THEN regular[1] ELSE pl[1]

\* C28: once the level has been started, whenever ai_mode is AI_DFS the
\* pellet list has at most one pellet; and the latest call of
\* reduce_to_one_pellet, if it found pellets, left exactly one of them: the
\* first regular pellet of the list it found or, if there was none, its
\* first pellet.
C28_OnePellet ==
    GameStarted =>
        /\ probe.ai_mode = AI_DFS => Len(pelletList) <= 1
        /\ (probe.reductions > 0 /\ probe.before # <<>>) =>
               probe.after = <<FirstRegularOrFirst(probe.before)>>

\* Single-target mode on a list that starts with a power pellet and has a
\* regular pellet behind it: the regular pellet is the one kept.
C28_Witness ==
    /\ GameStarted
    /\ probe.ai_mode = AI_DFS
    /\ Len(probe.before) >= 2
    /\ probe.before[1].name = POWERPELLET
    /\ pelletList = <<FirstRegularOrFirst(probe.before)>>
    /\ pelletList[1].name = PELLET

\* A reduction of a list of power pellets only, on the second level.
C28_WitnessPowerOnly ==
    /\ GameStarted
    /\ probe.ai_mode = AI_DFS
    /\ probe.level = 1
    /\ Len(probe.before) = 2
    /\ pelletList = <<probe.before[1]>>
    /\ pelletList[1].name = POWERPELLET

\* C29: the step that switches away from single-target mode leaves the
\* pellet list as the latest reduction found it, numEaten at the value
\* stored at the reduction, and is_dfs_mode false.
C29_RoundTrip ==
    [][(GameStarted /\ probe.ai_mode = AI_DFS /\ probe'.ai_mode # AI_DFS) =>
          /\ pelletList' = probe.before
          /\ result'.group.numEaten = result.group.originalNumEaten
          /\ result'.group.is_dfs_mode = FALSE]_vars

----------------------------------------------------------------------------
(* Properties of the single-target agent driving the character             *)

Driving == probe.op = "drive"

\* C31: with one pellet within reach over permitted edges and no ghosts, the
\* character driven by the single-target agent eventually consumes the
\* pellet: the pellet list eventually becomes empty.
C31_PelletEaten == <>(Driving /\ pelletList = <<>>)

\* C31 for a character that never turns round between two nodes.
C31_PelletEatenStraight == <>(Driving /\ (probe.reverses \/ pelletList = <<>>))

\* The effective node passes the goal-distance test of the pellet.
WithinGoalDistance ==
    /\ Driving
    /\ pelletList # <<>>
    /\ is_at_goal(get_current_node(pacman), pelletList[1].position)

\* The second half of C31: once the effective node passes the goal-distance
\* test of the pellet, the pellet is consumed in the end.
C31_NoOscillation == WithinGoalDistance ~> (pelletList = <<>>)

----------------------------------------------------------------------------
(* Properties of the controller's agent                                    *)

\* C32: once the game has been started, the controller has no agent exactly
\* when ai_mode is AI_NONE; otherwise its agent is of the class of ai_mode
\* and was created with the pacman, nodes, pellets and ghosts objects the
\* controller holds now; and pacman.ai_controlled is (ai_mode # AI_NONE).
C32_AgentMatchesMode ==
    GameStarted =>
        /\ (agent = NoAgent) <=> (probe.ai_mode = AI_NONE)
        /\ probe.ai_mode # AI_NONE =>
               /\ agent.kind = probe.ai_mode
               /\ probe.bound = probe.objects
        /\ probe.ai_mode = AI_NONE => probe.bound = Objects(0)
        /\ probe.ai_controlled = (probe.ai_mode # AI_NONE)

\* An agent on the second level, after a life was lost there or before:
\* startGame has run twice and the agent holds the objects of the second run.
C32_Witness ==
    /\ GameStarted
    /\ probe.ai_mode = AI_BFS
    /\ agent.kind = AI_BFS
    /\ probe.level = 1
    /\ probe.lives < Lives
    /\ probe.objects = Objects(2)
    /\ probe.bound = Objects(2)

\* Back under manual control after a restart of the game in an AI mode.
C32_WitnessManual ==
    /\ GameStarted
    /\ probe.ai_mode = AI_NONE
    /\ agent = NoAgent
    /\ probe.starts >= 2
    /\ probe.level = 0
    /\ ~probe.ai_controlled

----------------------------------------------------------------------------
(* Properties of the strategy factory                                      *)

\* The Agent State of an agent nobody has queried yet.
FreshState(ag) ==
    /\ ag.current_path = <<>>
    /\ ag.current_goal = None
    /\ ag.last_node = None
    /\ ag.last_position = None

\* C16: the factory returns no agent for manual control and an agent of the
\* requested strategy otherwise; whatever was created and queried before,
\* the agent it returns starts with an empty Agent State; creating an agent
\* changes none of the earlier ones, and a query changes at most the agent
\* queried.
C16_Factory ==
    [][FactoryCalled =>
        LET old == result.agents
            new == result'.agents
        IN  /\ \A i \in 1..Len(new) :
                   IF probe'.modes[i] = AI_NONE THEN new[i] = NoAgent
                   ELSE new[i].kind = probe'.modes[i]
            /\ Len(new) = Len(old) + 1 =>
                   /\ SubSeq(new, 1, Len(old)) = old
                   /\ FreshState(new[Len(new)])
            /\ Len(new) = Len(old) =>
                   Cardinality({i \in 1..Len(old) : new[i] # old[i]}) <= 1]_vars

\* C16 witness: two agents of the same strategy made one after the other;
\* the first has been queried and holds a path, the second is untouched.
C16_Witness ==
    /\ FactoryCalled
    /\ Len(result.agents) >= 2
    /\ result.agents[1].kind = AI_BFS
    /\ result.agents[2].kind = AI_BFS
    /\ result.agents[1].current_path # <<>>
    /\ FreshState(result.agents[2])
    /\ quietN = 1

====
